---- MODULE Spec2Model ----
(***************************************************************************)
(* Sound Tools: the audio signal-chain manager (AudioProcessor with the    *)
(* content-script ParameterStore) and the MIDI mapping engine              *)
(* (MidiController with MidiStorageManager), as state machines.            *)
(*                                                                         *)
(* SpecChain    the chain manager: toggles, new elements, failing factories*)
(* SpecParams   the parameter store together with the chain manager        *)
(* SpecMidi     the MIDI engine and its durable storage                    *)
(* SpecRestore  restoring the saved device and its mappings                *)
(* SpecDispatch the value computed by checkMidiMappings, over all data2    *)
(* SpecLearn    learning a control in the page, then triggering effects    *)
(* SpecRace     links made and removed while storage operations overlap    *)
(* SpecStore    the parameter store with overlapping initialize() calls    *)
(* SpecLink     controls of every kind and channel are learned and linked  *)
(* SpecRoom     the reverb's room size is set to every value of its range  *)
(* SpecGesture  the automatic MIDI restore at load and on a user gesture    *)
(* SpecPopup    the popup's parameter store and its deliveries              *)
(* SpecOverlay  setters racing the storage read of initialize()            *)
(* SpecTarget   requestMidiLink with target ids of every form              *)
(***************************************************************************)
EXTENDS Integers, Sequences, FiniteSets, TLC

(***************************************************************************)
(* Bounds of the model.                                                    *)
(***************************************************************************)
\* Media elements that can appear in the page.
MaxElements == 2
\* Persistence writes of the parameter store that may be in flight at once.
MaxPendingWrites == 1
\* initialize() calls of the parameter store that may await storage at once.
MaxInitCalls == 2

Elements == 1..MaxElements

(***************************************************************************)
(* Static catalog: BaseParameterStore.EFFECT_DEFINITIONS.                  *)
(***************************************************************************)
ParamDef(d, lo, hi) == [defaultValue |-> d, min |-> lo, max |-> hi]

EFFECT_DEFINITIONS ==
  [ distortion |-> [ amount |-> ParamDef(30, 0, 100) ],
    reverb     |-> [ roomSize |-> ParamDef(50, 0, 100),
                     mix      |-> ParamDef(30, 0, 100) ],
    filter     |-> [ highPassFreq |-> ParamDef(20, 0, 100),
                     highPassQ    |-> ParamDef(10, 0, 100),
                     lowPassFreq  |-> ParamDef(80, 0, 100),
                     lowPassQ     |-> ParamDef(10, 0, 100) ] ]

\* The effects registered by AudioProcessor.initializeEffects.
availableEffects == {"filter", "distortion", "reverb"}

\* A processing order that puts reverb first.
EFFECT_ORDER_reverbFirst == <<"reverb", "distortion", "filter">>

\* Effect processing order: Distortion > Reverb > Filter.
EFFECT_ORDER == <<"distortion", "reverb", "filter">>

(***************************************************************************)
(* Numbers as JavaScript passes them: a finite number, NaN or an infinity. *)
(***************************************************************************)
Num(n) == [kind |-> "num", n |-> n]
NaN    == [kind |-> "nan", n |-> 0]
PosInf == [kind |-> "posinf", n |-> 0]
NegInf == [kind |-> "neginf", n |-> 0]

\* value >= bound, for a finite bound.
NumGE(v, bound) ==
  CASE v.kind = "num"    -> v.n >= bound
    [] v.kind = "posinf" -> TRUE
    [] OTHER             -> FALSE

\* value <= bound, for a finite bound.
NumLE(v, bound) ==
  CASE v.kind = "num"    -> v.n <= bound
    [] v.kind = "neginf" -> TRUE
    [] OTHER             -> FALSE

NumberIsFinite(v) == v.kind = "num"

(***************************************************************************)
(* State.                                                                  *)
(***************************************************************************)
VARIABLES
  \* ---- AudioProcessor
  audioContext,      \* TRUE once the AudioContext has been created
  pageElements,      \* media elements present in the document
  sourceNodes,       \* Map<HTMLMediaElement, source>: its keys, in insertion order
  effectNodes,       \* Map<string, AudioNode>: effect name -> element whose chain built the node
  enabledEffects,    \* Set<string>
  nodeParams,        \* live effect node <<element, effect>> -> parameter -> applied setting
  connections,       \* the audio graph: set of <<from node, to node>>
  factoryFailed,     \* some create() of the current build returned null
  \* ---- ContentParameterStore
  parameters,        \* Map<effect, Map<parameter, number>>
  isInitialized,
  initCalls,         \* initialize() calls awaiting the storage read
  listenerRegistered,\* AudioProcessor.handleParameterChange is registered
  parameterChangeListeners, \* the listener Set, in insertion order
  paramStorage,      \* chrome.storage.local['sound-tools-parameters']
  pendingParamWrites,\* snapshots handed to chrome.storage.local.set, not yet written
  audioRet,          \* the last call that returns a value, and what it returned
  \* ---- history
  previousNode       \* the settings the nodes of the last disabled effect had

audioVars ==
  << audioContext, pageElements, sourceNodes, effectNodes, enabledEffects,
     nodeParams, connections, factoryFailed,
     parameters, isInitialized, initCalls, listenerRegistered,
     parameterChangeListeners, paramStorage,
     pendingParamWrites, audioRet, previousNode >>

VARIABLES
  \* ---- MidiController
  midiAccess,        \* TRUE once requestMIDIAccess has resolved
  hasPermission,
  availableDevices,  \* ids of the devices of the last scan
  isConnected,
  connectedDeviceId,
  isLearning,
  isLinked,
  lastActivity,
  midiMappings,      \* Map<midiKey, MidiMapping[]>
  listening,         \* hardware inputs whose onmidimessage is the engine's handler
  pendingConnects,   \* connectToDevice calls awaiting loadDeviceConfiguration
  restoreCall,       \* the autoRestoreAfterPermissionGrant / restoreMidiState call in progress
  \* ---- MidiStorageManager over chrome.storage.local
  storageOps,        \* operations started and not yet finished
  devicesStore,      \* 'sound-tools-midi-configurations': device id -> stored mappings
  lastActiveStore,   \* 'sound-tools-last-active-device'
  permissionStore,   \* 'sound-tools-midi-permissions' for the page's domain
  storageLimit,      \* how many operations the specification lets be in flight
  \* ---- what the last step did towards its caller
  midiEvents,        \* callbacks of MidiControllerEvents fired by the last step, in order
  midiRet            \* what the last step returned to its caller

midiVars ==
  << midiAccess, hasPermission, availableDevices, isConnected, connectedDeviceId,
     isLearning, isLinked, lastActivity, midiMappings, listening, pendingConnects,
     restoreCall, storageOps, devicesStore, lastActiveStore, permissionStore,
     storageLimit, midiEvents, midiRet >>

VARIABLES
  \* ---- ContentScriptManager
  autoRestoreAttempted,
  autoRestoreOnUserGesture,
  gestureListeners,  \* event types whose once-listener is still on the document
  documentLoading,   \* DOMContentLoaded has not fired yet
  restoreAttempts,   \* attemptAutoRestore calls past their guard and not finished
  \* ---- history
  attemptsRun        \* how many attempts the load and the gestures have started

managerVars ==
  << autoRestoreAttempted, autoRestoreOnUserGesture, gestureListeners,
     documentLoading, restoreAttempts, attemptsRun >>

VARIABLES
  \* ---- PopupParameterStore
  popupParameters,   \* Map<effect, Map<parameter, number>> of the popup
  popupInit,         \* where the popup's initialize() is: none, loading, syncing, done
  popupSends,        \* setParameter calls awaiting sendParameterToContentScript
  popupWrites,       \* snapshots the popup handed to chrome.storage.local.set
  popupRet           \* the last popup setParameter that returned, and what it returned

popupVars == << popupParameters, popupInit, popupSends, popupWrites, popupRet >>

vars == << audioVars, midiVars, managerVars, popupVars >>

(***************************************************************************)
(* EffectNodeFactory: what create() builds and what updateParameter sets.  *)
(* A node's settings are kept in the unit the code computes them from: a   *)
(* gain in percent, a bank index, and for the exponential tapers the       *)
(* 0..100 position on the taper (each taper is strictly increasing, so the *)
(* position determines the value).                                         *)
(***************************************************************************)
\* ReverbEffect.generateImpulseResponseBank: the bank holds 20 responses.
ImpulseBankLength == 20

\* DistortionEffect.create: createDistortionCurve(400), an internal amount.
PlaceholderCurveAmount == 400

\* Math.floor((value / 100) * (impulseBank.length - 1)), clamped to the bank.
FloorIndex(value, len) == (value * (len - 1)) \div 100

Clamp(x, lo, hi) == IF x < lo THEN lo ELSE IF x > hi THEN hi ELSE x

ReverbBankIndex(value) ==
  Clamp(FloorIndex(value, ImpulseBankLength), 0, ImpulseBankLength - 1)

\* The settings of a node right after create(), before any updateParameter.
CreateSettings(effect) ==
  CASE effect = "distortion" -> [curve |-> <<"internal", PlaceholderCurveAmount>>]
    [] effect = "reverb"     -> [dryGain |-> 100, wetGain |-> 0, buffer |-> 0]
    [] effect = "filter"     -> [highPassFrequency |-> 0, highPassQ |-> 0,
                                 lowPassFrequency |-> 100, lowPassQ |-> 0]

\* <Effect>.updateParameter(node, parameterName, value) on the node's settings.
UpdateParameter(effect, settings, parameterName, value) ==
  CASE effect = "distortion" /\ parameterName = "amount" ->
         [settings EXCEPT !.curve = <<"taper", value>>]
    [] effect = "reverb" /\ parameterName = "mix" ->
         [settings EXCEPT !.dryGain = 100 - value, !.wetGain = value]
    [] effect = "reverb" /\ parameterName = "roomSize" ->
         [settings EXCEPT !.buffer = ReverbBankIndex(value)]
    [] effect = "filter" /\ parameterName = "highPassFreq" ->
         [settings EXCEPT !.highPassFrequency = value]
    [] effect = "filter" /\ parameterName = "highPassQ" ->
         [settings EXCEPT !.highPassQ = value]
    [] effect = "filter" /\ parameterName = "lowPassFreq" ->
         [settings EXCEPT !.lowPassFrequency = value]
    [] effect = "filter" /\ parameterName = "lowPassQ" ->
         [settings EXCEPT !.lowPassQ = value]
    [] OTHER -> settings

(***************************************************************************)
(* The audio graph.  A node is <<kind, element>>: the source of a media    *)
(* element, the destination, or one processing unit of an effect built for *)
(* that element's chain.  Nodes of earlier builds are no longer referenced *)
(* by the processor and no source reaches them; the model keeps the        *)
(* connections they still hold and identifies all of them as one node.     *)
(***************************************************************************)
Destination == <<"destination", 0>>
Source(e)   == <<"source", e>>

\* The node create() returns: the effect's input tap.
InputTap(effect) ==
  CASE effect = "distortion" -> "waveshaper"
    [] effect = "reverb"     -> "inputSplitter"
    [] effect = "filter"     -> "highPass"

\* The chain continued from the node create() returned, not from the effect's
\* output.
OutputTap_returnedNode(effect) == InputTap(effect)

\* connectAudioChain: filterOutput || reverbOutput || effectNode.
OutputTap(effect) ==
  CASE effect = "distortion" -> "waveshaper"
    [] effect = "reverb"     -> "outputMixer"
    [] effect = "filter"     -> "lowPass"

\* The connections create() makes inside a compound effect.
InternalConnections(effect, e) ==
  CASE effect = "distortion" -> {}
    [] effect = "reverb" ->
         { << <<"inputSplitter", e>>, <<"dryGain", e>> >>,
           << <<"inputSplitter", e>>, <<"convolver", e>> >>,
           << <<"convolver", e>>, <<"wetGain", e>> >>,
           << <<"dryGain", e>>, <<"outputMixer", e>> >>,
           << <<"wetGain", e>>, <<"outputMixer", e>> >> }
    [] effect = "filter" ->
         { << <<"highPass", e>>, <<"lowPass", e>> >> }

\* AudioNode.disconnect(): every outgoing connection of the node goes.
DisconnectNode(conns, node) == { c \in conns : c[1] # node }

RECURSIVE DisconnectAll(_, _)
DisconnectAll(conns, nodes) ==
  IF nodes = {} THEN conns
  ELSE LET n == CHOOSE x \in nodes : TRUE
       IN  DisconnectAll(DisconnectNode(conns, n), nodes \ {n})

\* A node of an earlier build.
Aged(node) ==
  IF node[1] \in {"source", "destination"} THEN node ELSE <<"stale", 0>>

NoNode == 0

\* A map with no entries.
EmptyMap == [x \in {} |-> 0]

\* The part of the processor a chain build reads and writes.
Graph(conns, fx, params, failed) ==
  [connections |-> conns, effectNodes |-> fx, nodeParams |-> params, failed |-> failed]

\* applyStoredParameters: every stored parameter of the effect, onto the node.
RECURSIVE ApplyAll(_, _, _, _)
ApplyAll(effect, settings, stored, names) ==
  IF names = {} THEN settings
  ELSE LET p == CHOOSE x \in names : TRUE
       IN  ApplyAll(effect, UpdateParameter(effect, settings, p, stored[p]), stored,
                    names \ {p})

applyStoredParameters(effect, settings, store) ==
  ApplyAll(effect, settings, store[effect], DOMAIN store[effect])

RECURSIVE ChainFrom_stopsAtFailure(_, _, _, _, _, _, _)
ChainFrom_stopsAtFailure(order, i, e, tail, g, enabled, ctx) ==
  IF i > Len(order)
  THEN [g EXCEPT !.connections = @ \cup { <<tail, Destination>> }]
  ELSE
    LET effect == order[i] IN
    IF effect \in enabled /\ effect \in availableEffects
    THEN IF effect \in ctx.broken
         THEN [g EXCEPT !.failed = TRUE]
         ELSE ChainFrom_stopsAtFailure(order, i + 1, e, <<OutputTap(effect), e>>,
                [g EXCEPT
                   !.effectNodes = [@ EXCEPT ![effect] = e],
                   !.nodeParams = [k \in DOMAIN @ \cup { <<e, effect>> } |->
                       IF k = <<e, effect>>
                       THEN applyStoredParameters(effect, CreateSettings(effect), ctx.store)
                       ELSE @[k]],
                   !.connections = @ \cup InternalConnections(effect, e)
                                     \cup { <<tail, <<InputTap(effect), e>> >> }],
                enabled, ctx)
    ELSE ChainFrom_stopsAtFailure(order, i + 1, e, tail, g, enabled, ctx)

\* connectAudioChain, from position i of EFFECT_ORDER with the running tail.
RECURSIVE ChainFrom(_, _, _, _, _, _, _)
ChainFrom(order, i, e, tail, g, enabled, ctx) ==
  IF i > Len(order)
  THEN [g EXCEPT !.connections = @ \cup { <<tail, Destination>> }]
  ELSE
    LET effect == order[i] IN
    IF effect \in enabled /\ effect \in availableEffects
    THEN IF effect \in ctx.broken
         THEN ChainFrom(order, i + 1, e, tail, [g EXCEPT !.failed = TRUE], enabled, ctx)
         ELSE ChainFrom(order, i + 1, e, <<OutputTap(effect), e>>,
                [g EXCEPT
                   !.effectNodes = [@ EXCEPT ![effect] = e],
                   !.nodeParams = [k \in DOMAIN @ \cup { <<e, effect>> } |->
                       IF k = <<e, effect>>
                       THEN applyStoredParameters(effect, CreateSettings(effect), ctx.store)
                       ELSE @[k]],
                   !.connections = @ \cup InternalConnections(effect, e)
                                     \cup { <<tail, <<InputTap(effect), e>> >> }],
                enabled, ctx)
    ELSE ChainFrom(order, i + 1, e, tail, g, enabled, ctx)

connectAudioChain(e, g, enabled, ctx) ==
  IF ~ctx.audioContext THEN g
  ELSE ChainFrom(EFFECT_ORDER, 1, e, Source(e), g, enabled, ctx)

RECURSIVE ConnectEach(_, _, _, _, _)
ConnectEach(srcs, i, g, enabled, ctx) ==
  IF i > Len(srcs) THEN g
  ELSE ConnectEach(srcs, i + 1, connectAudioChain(srcs[i], g, enabled, ctx), enabled, ctx)

Range(seq) == { seq[i] : i \in DOMAIN seq }

\* rebuildAudioChain: disconnect the sources and the mapped effect nodes, clear
\* the effect-node map, connect a fresh chain for every source.
rebuildAudioChain(srcs, g, enabled, ctx) ==
  IF ~ctx.audioContext THEN g
  ELSE
    LET mapped == { <<InputTap(f), g.effectNodes[f]>> :
                      f \in { x \in DOMAIN g.effectNodes : g.effectNodes[x] # NoNode } }
        cut    == DisconnectAll(g.connections, { Source(e) : e \in Range(srcs) } \cup mapped)
        old    == { <<Aged(c[1]), Aged(c[2])>> : c \in cut }
        clear  == [g EXCEPT !.connections = old,
                            !.effectNodes = [f \in DOMAIN @ |-> NoNode],
                            !.nodeParams = EmptyMap,
                            !.failed = FALSE]
    IN  ConnectEach(srcs, 1, clear, enabled, ctx)

RECURSIVE SetupEach_noWiredTest(_, _, _, _, _)
SetupEach_noWiredTest(todo, srcs, g, enabled, ctx) ==
  IF todo = {} \/ ~ctx.audioContext THEN [sourceNodes |-> srcs, g |-> g]
  ELSE LET e == CHOOSE x \in todo : \A y \in todo : x <= y IN
       SetupEach_noWiredTest(todo \ {e}, Append(srcs, e),
                             connectAudioChain(e, g, enabled, ctx), enabled, ctx)

\* setupMediaElement for each media element of the document, in document order.
RECURSIVE SetupEach(_, _, _, _, _)
SetupEach(todo, srcs, g, enabled, ctx) ==
  IF todo = {} \/ ~ctx.audioContext THEN [sourceNodes |-> srcs, g |-> g]
  ELSE LET e == CHOOSE x \in todo : \A y \in todo : x <= y IN
       IF e \in Range(srcs)
       THEN SetupEach(todo \ {e}, srcs, g, enabled, ctx)
       ELSE SetupEach(todo \ {e}, Append(srcs, e),
                      connectAudioChain(e, g, enabled, ctx), enabled, ctx)

(***************************************************************************)
(* ContentParameterStore.                                                  *)
(***************************************************************************)
\* A validation that does not test the upper bound.
isValidParameter_noMax(effectName, parameterName, value) ==
  /\ effectName \in DOMAIN EFFECT_DEFINITIONS
  /\ parameterName \in DOMAIN EFFECT_DEFINITIONS[effectName]
  /\ LET paramDef == EFFECT_DEFINITIONS[effectName][parameterName]
     IN  NumGE(value, paramDef.min) /\ NumberIsFinite(value)

\* BaseParameterStore.isValidParameter
isValidParameter(effectName, parameterName, value) ==
  /\ effectName \in DOMAIN EFFECT_DEFINITIONS
  /\ parameterName \in DOMAIN EFFECT_DEFINITIONS[effectName]
  /\ LET paramDef == EFFECT_DEFINITIONS[effectName][parameterName]
     IN  NumGE(value, paramDef.min) /\ NumLE(value, paramDef.max) /\ NumberIsFinite(value)

\* BaseParameterStore.loadDefaultValues
loadDefaultValues ==
  [f \in DOMAIN EFFECT_DEFINITIONS |->
     [p \in DOMAIN EFFECT_DEFINITIONS[f] |-> EFFECT_DEFINITIONS[f][p].defaultValue]]

\* BaseParameterStore.loadFromStorage: overlay the stored values that validate.
loadFromStorage(params, stored) ==
  [f \in DOMAIN params |->
     [p \in DOMAIN params[f] |->
        IF /\ f \in DOMAIN stored
           /\ p \in DOMAIN stored[f]
           /\ isValidParameter(f, p, Num(stored[f][p]))
        THEN stored[f][p]
        ELSE params[f][p]]]

\* AudioProcessor.applyParameterToEffect: the node the effect-node map holds.
applyParameterToEffect(fx, params, effectName, parameterName, value) ==
  IF effectName \notin DOMAIN fx \/ fx[effectName] = NoNode
  THEN params
  ELSE [params EXCEPT ![<<fx[effectName], effectName>>] =
          UpdateParameter(effectName, @, parameterName, value)]

(***************************************************************************)
(* Inputs of the audio side.                                               *)
(***************************************************************************)
\* Names a caller may pass: the three effects and one that does not exist.
EffectInputs == availableEffects \cup {"chorus"}

\* setParameter calls that are tried: accepted ones and each kind of rejection.
SetInputs ==
  { <<"distortion", "amount", Num(70)>>,
    <<"distortion", "amount", Num(101)>>,
    <<"distortion", "amount", Num(-1)>>,
    <<"distortion", "amount", NaN>>,
    <<"reverb", "mix", PosInf>>,
    <<"reverb", "mix", NegInf>>,
    <<"chorus", "amount", Num(50)>>,
    <<"distortion", "gain", Num(50)>> }

\* What chrome.storage may hold for the parameters when the page loads.
StoredChoices ==
  { EmptyMap,
    [distortion |-> [amount |-> 70]],
    [distortion |-> [amount |-> 150], reverb |-> [roomSize |-> 99]] }

\* The factories that return null during one operation: none, or one effect's.
BrokenChoices == { {} } \cup { {f} : f \in availableEffects }

\* What the last call that returns a value returned, whether it called
\* a parameter-change listener, and the <<effect, parameter, value>> it stored.
Ret(op, result) ==
  [op |-> op, result |-> result, notified |-> FALSE, calls |-> << >>, thrown |-> FALSE,
   set |-> << >>]
NoRet == Ret("none", FALSE)

\* History: no effect has been disabled since the last parameter change.
NoPrevious == [effect |-> "none", settings |-> EmptyMap]

(***************************************************************************)
(* Actions of the audio side.                                              *)
(***************************************************************************)
ChainContext(ctxExists, broken) ==
  [audioContext |-> ctxExists, broken |-> broken, store |-> parameters]

CurrentGraph == Graph(connections, effectNodes, nodeParams, factoryFailed)

TakeGraph(g) ==
  /\ connections' = g.connections
  /\ effectNodes' = g.effectNodes
  /\ nodeParams' = g.nodeParams
  /\ factoryFailed' = g.failed

storeVars ==
  << parameters, isInitialized, initCalls, listenerRegistered,
     parameterChangeListeners, paramStorage, pendingParamWrites >>

\* enableEffect without its test of enabledEffects.has(effectName).
EnableEffect_noEnabledTest(effectName, broken) ==
  /\ UNCHANGED << midiVars, managerVars, popupVars >>
  /\ IF effectName \in availableEffects
     THEN LET enabled == enabledEffects \cup {effectName}
              ctx     == ChainContext(TRUE, broken)
              setup   == SetupEach(pageElements, sourceNodes, CurrentGraph, enabled, ctx)
              g       == rebuildAudioChain(setup.sourceNodes, setup.g, enabled, ctx)
          IN  /\ enabledEffects' = enabled
              /\ audioContext' = TRUE
              /\ sourceNodes' = setup.sourceNodes
              /\ TakeGraph(g)
              /\ audioRet' = Ret("enableEffect", TRUE)
              /\ previousNode' = NoPrevious
              /\ UNCHANGED << pageElements, storeVars >>
     ELSE /\ audioRet' = Ret("enableEffect", FALSE)
          /\ UNCHANGED << audioContext, pageElements, sourceNodes, effectNodes,
                          enabledEffects, nodeParams, connections,
                          factoryFailed, storeVars, previousNode >>

\* AudioProcessor.enableEffect
EnableEffect(effectName, broken) ==
  /\ UNCHANGED << midiVars, managerVars, popupVars >>
  /\ IF effectName \in availableEffects /\ effectName \notin enabledEffects
     THEN LET enabled == enabledEffects \cup {effectName}
              ctx     == ChainContext(TRUE, broken)
              \* setupAudioProcessing: create the context, wire the document's elements
              setup   == SetupEach(pageElements, sourceNodes, CurrentGraph, enabled, ctx)
              g       == rebuildAudioChain(setup.sourceNodes, setup.g, enabled, ctx)
          IN  /\ enabledEffects' = enabled
              /\ audioContext' = TRUE
              /\ sourceNodes' = setup.sourceNodes
              /\ TakeGraph(g)
              /\ audioRet' = Ret("enableEffect", TRUE)
              /\ previousNode' = IF previousNode.effect = effectName
                                 THEN NoPrevious ELSE previousNode
              /\ UNCHANGED << pageElements, storeVars >>
     ELSE /\ audioRet' = Ret("enableEffect", FALSE)
          /\ UNCHANGED << audioContext, pageElements, sourceNodes, effectNodes,
                          enabledEffects, nodeParams, connections,
                          factoryFailed, storeVars, previousNode >>

\* AudioProcessor.disableEffect
DisableEffect(effectName, broken) ==
  /\ UNCHANGED << midiVars, managerVars, popupVars >>
  /\ IF effectName \in enabledEffects
     THEN LET enabled == enabledEffects \ {effectName}
              g == rebuildAudioChain(sourceNodes, CurrentGraph, enabled,
                                     ChainContext(audioContext, broken))
          IN  /\ enabledEffects' = enabled
              /\ TakeGraph(g)
              /\ audioRet' = Ret("disableEffect", TRUE)
              /\ previousNode' =
                   [effect |-> effectName,
                    settings |-> [k \in { x \in DOMAIN nodeParams : x[2] = effectName }
                                    |-> nodeParams[k]]]
              /\ UNCHANGED << audioContext, pageElements, sourceNodes, storeVars >>
     ELSE /\ audioRet' = Ret("disableEffect", FALSE)
          /\ UNCHANGED << audioContext, pageElements, sourceNodes, effectNodes,
                          enabledEffects, nodeParams, connections,
                          factoryFailed, storeVars, previousNode >>

\* AudioProcessor.handleNewMediaElements
HandleNewMediaElements(broken) ==
  /\ UNCHANGED << midiVars, managerVars, popupVars >>
  /\ LET setup == SetupEach(pageElements, sourceNodes, CurrentGraph, enabledEffects,
                            ChainContext(audioContext, broken))
     IN  /\ sourceNodes' = setup.sourceNodes
         /\ TakeGraph(setup.g)
         /\ UNCHANGED << audioContext, pageElements, enabledEffects, audioRet,
                         storeVars, previousNode >>

\* The listeners a parameter store can hold: the AudioProcessor's, and
\* listeners of other callers, one of which throws whenever it is invoked.
ProcessorListener == "handleParameterChange"
OtherListeners == { "steady", "throwing" }
ListenerThrows(listener) == listener = "throwing"

\* What invoking one listener with the event does to the nodes.
ListenerEffect(listener, fx, params, effectName, parameterName, value) ==
  IF listener = ProcessorListener
  THEN applyParameterToEffect(fx, params, effectName, parameterName, value)
  ELSE params

\* Set.add keeps the first insertion.
SetAdd(seq, x) == IF x \in Range(seq) THEN seq ELSE Append(seq, x)

RECURSIVE NotifyFrom_noCatch(_, _, _, _, _, _, _, _)
NotifyFrom_noCatch(listeners, i, fx, params, effectName, parameterName, value, calls) ==
  IF i > Len(listeners)
  THEN [nodeParams |-> params, calls |-> calls, thrown |-> FALSE]
  ELSE IF ListenerThrows(listeners[i])
       THEN [nodeParams |-> params, calls |-> Append(calls, listeners[i]), thrown |-> TRUE]
       ELSE NotifyFrom_noCatch(listeners, i + 1, fx,
                               ListenerEffect(listeners[i], fx, params, effectName,
                                              parameterName, value),
                               effectName, parameterName, value,
                               Append(calls, listeners[i]))

\* ContentParameterStore.notifyListeners: forEach over the Set, each listener
\* called inside its own try/catch, which logs what the listener throws.
RECURSIVE NotifyFrom(_, _, _, _, _, _, _, _)
NotifyFrom(listeners, i, fx, params, effectName, parameterName, value, calls) ==
  IF i > Len(listeners)
  THEN [nodeParams |-> params, calls |-> calls, thrown |-> FALSE]
  ELSE NotifyFrom(listeners, i + 1, fx,
                  IF ListenerThrows(listeners[i])
                  THEN params
                  ELSE ListenerEffect(listeners[i], fx, params, effectName,
                                      parameterName, value),
                  effectName, parameterName, value,
                  Append(calls, listeners[i]))

notifyListeners(listeners, fx, params, effectName, parameterName, value) ==
  NotifyFrom(listeners, 1, fx, params, effectName, parameterName, value, << >>)

\* ContentParameterStore.setParameter, up to the point where it awaits the
\* storage write (AudioProcessor.updateEffectParameter and the 'setParameter'
\* message both call it). A rejected call returns here; an accepted call has
\* its outcome fixed here and returns it when ParamWriteCompletes resumes it.
SetParameter(effectName, parameterName, value) ==
  /\ UNCHANGED << midiVars, managerVars, popupVars >>
  /\ IF ~isValidParameter(effectName, parameterName, value)
     THEN /\ audioRet' = Ret("setParameter", FALSE)
          /\ UNCHANGED << audioContext, pageElements, sourceNodes, effectNodes,
                          enabledEffects, nodeParams, connections,
                          factoryFailed, storeVars, previousNode >>
     ELSE LET n == notifyListeners(parameterChangeListeners, effectNodes, nodeParams,
                                   effectName, parameterName, value.n)
          IN
          /\ Len(pendingParamWrites) < MaxPendingWrites
          /\ parameters' = [parameters EXCEPT ![effectName][parameterName] = value.n]
          /\ nodeParams' = n.nodeParams
          \* saveToStorage, unless notifyListeners threw: the snapshot is taken
          \* now, the write completes later
          /\ pendingParamWrites' =
               IF n.thrown THEN pendingParamWrites
               ELSE Append(pendingParamWrites, parameters')
          /\ audioRet' = [Ret("setParameter", ~n.thrown) EXCEPT
                            !.notified = ProcessorListener \in Range(n.calls),
                            !.calls = n.calls,
                            !.thrown = n.thrown,
                            !.set = <<effectName, parameterName, value.n>>]
          /\ previousNode' = NoPrevious
          /\ UNCHANGED << audioContext, pageElements, sourceNodes, effectNodes,
                          enabledEffects, connections, factoryFailed,
                          isInitialized, initCalls, listenerRegistered,
                          parameterChangeListeners, paramStorage >>

\* chrome.storage.local.set of saveToStorage completes; saveToStorage returns
\* and setParameter, which awaited it, goes on to "return true": the promise
\* of the call settles and the 'setParameter' message's then-callback responds.
ParamWriteCompletes ==
  /\ UNCHANGED << midiVars, managerVars, popupVars >>
  /\ /\ pendingParamWrites # << >>
     /\ paramStorage' = Head(pendingParamWrites)
     /\ pendingParamWrites' = Tail(pendingParamWrites)
     /\ audioRet' = Ret("setParameterResolved", TRUE)
     /\ UNCHANGED << audioContext, pageElements, sourceNodes, effectNodes,
                     enabledEffects, nodeParams, connections,
                     factoryFailed, parameters, isInitialized, initCalls,
                     listenerRegistered, parameterChangeListeners, previousNode >>

\* ContentParameterStore.initialize, up to the point where it awaits the
\* storage read; InitializeCompletes is the rest of the call.
Initialize ==
  /\ UNCHANGED << midiVars, managerVars, popupVars >>
  /\ initCalls < MaxInitCalls
  /\ audioRet' = Ret("initialize", FALSE)
  /\ IF isInitialized
     THEN UNCHANGED << audioContext, pageElements, sourceNodes, effectNodes,
                       enabledEffects, nodeParams, connections, factoryFailed,
                       storeVars, previousNode >>
     ELSE /\ parameters' = loadDefaultValues
          /\ initCalls' = initCalls + 1
          /\ UNCHANGED << audioContext, pageElements, sourceNodes, effectNodes,
                          enabledEffects, nodeParams, connections, factoryFailed,
                          isInitialized, listenerRegistered, parameterChangeListeners,
                          paramStorage, pendingParamWrites, previousNode >>

\* The storage read of initialize() resolves: loadFromStorage overlays the stored
\* values, the store is marked initialized, and initializeParameterStore goes on
\* to register the processor's listener.
InitializeCompletes ==
  /\ UNCHANGED << midiVars, managerVars, popupVars >>
  /\ /\ initCalls > 0
     /\ parameters' = loadFromStorage(parameters, paramStorage)
     /\ isInitialized' = TRUE
     /\ listenerRegistered' = TRUE
     /\ parameterChangeListeners' = SetAdd(parameterChangeListeners, ProcessorListener)
     /\ initCalls' = initCalls - 1
     /\ previousNode' = NoPrevious
     /\ UNCHANGED << audioRet, audioContext, pageElements, sourceNodes, effectNodes,
                     enabledEffects, nodeParams, connections,
                     factoryFailed, paramStorage, pendingParamWrites >>

\* ContentParameterStore.addParameterChangeListener, called by other code.
AddParameterChangeListener(listener) ==
  /\ UNCHANGED << midiVars, managerVars, popupVars >>
  /\ listener \notin Range(parameterChangeListeners)
  /\ parameterChangeListeners' = SetAdd(parameterChangeListeners, listener)
  /\ UNCHANGED << audioRet, audioContext, pageElements, sourceNodes, effectNodes,
                  enabledEffects, nodeParams, connections, factoryFailed,
                  parameters, isInitialized, initCalls, listenerRegistered,
                  paramStorage, pendingParamWrites, previousNode >>

\* The page gains a media element.
MediaElementAdded(e) ==
  /\ UNCHANGED << midiVars, managerVars, popupVars >>
  /\ /\ e \notin pageElements
     /\ pageElements' = pageElements \cup {e}
     /\ UNCHANGED << audioRet, audioContext, sourceNodes, effectNodes, enabledEffects,
                     nodeParams, connections, factoryFailed, storeVars, previousNode >>

(***************************************************************************)
(* The AudioProcessor and its parameter store as a value, for the callers  *)
(* that reach them from inside another handler.                            *)
(***************************************************************************)
Processor ==
  [ audioContext |-> audioContext, sourceNodes |-> sourceNodes,
    effectNodes |-> effectNodes, enabledEffects |-> enabledEffects,
    nodeParams |-> nodeParams, connections |-> connections,
    factoryFailed |-> factoryFailed, parameters |-> parameters,
    pendingParamWrites |-> pendingParamWrites, audioRet |-> audioRet,
    previousNode |-> previousNode ]

TakeProcessor(a) ==
  /\ audioContext' = a.audioContext
  /\ sourceNodes' = a.sourceNodes
  /\ effectNodes' = a.effectNodes
  /\ enabledEffects' = a.enabledEffects
  /\ nodeParams' = a.nodeParams
  /\ connections' = a.connections
  /\ factoryFailed' = a.factoryFailed
  /\ parameters' = a.parameters
  /\ pendingParamWrites' = a.pendingParamWrites
  /\ audioRet' = a.audioRet
  /\ previousNode' = a.previousNode

\* What a processor call made from another handler leaves alone.
processorFrame ==
  << pageElements, isInitialized, initCalls, listenerRegistered,
     parameterChangeListeners, paramStorage >>

GraphOf(a) == Graph(a.connections, a.effectNodes, a.nodeParams, a.factoryFailed)

WithGraph(a, g) ==
  [a EXCEPT !.connections = g.connections, !.effectNodes = g.effectNodes,
            !.nodeParams = g.nodeParams, !.factoryFailed = g.failed]

\* AudioProcessor.enableEffect
enableEffect(a, effectName, broken) ==
  IF effectName \in availableEffects /\ effectName \notin a.enabledEffects
  THEN LET enabled == a.enabledEffects \cup {effectName}
           ctx     == [audioContext |-> TRUE, broken |-> broken, store |-> a.parameters]
           setup   == SetupEach(pageElements, a.sourceNodes, GraphOf(a), enabled, ctx)
           g       == rebuildAudioChain(setup.sourceNodes, setup.g, enabled, ctx)
       IN  [WithGraph(a, g) EXCEPT
              !.enabledEffects = enabled,
              !.audioContext = TRUE,
              !.sourceNodes = setup.sourceNodes,
              !.audioRet = Ret("enableEffect", TRUE),
              !.previousNode = IF @.effect = effectName THEN NoPrevious ELSE @]
  ELSE [a EXCEPT !.audioRet = Ret("enableEffect", FALSE)]

\* AudioProcessor.disableEffect
disableEffect(a, effectName, broken) ==
  IF effectName \in a.enabledEffects
  THEN LET enabled == a.enabledEffects \ {effectName}
           ctx == [audioContext |-> a.audioContext, broken |-> broken,
                   store |-> a.parameters]
           g   == rebuildAudioChain(a.sourceNodes, GraphOf(a), enabled, ctx)
       IN  [WithGraph(a, g) EXCEPT
              !.enabledEffects = enabled,
              !.audioRet = Ret("disableEffect", TRUE),
              !.previousNode =
                 [effect |-> effectName,
                  settings |-> [k \in { x \in DOMAIN a.nodeParams : x[2] = effectName }
                                  |-> a.nodeParams[k]]]]
  ELSE [a EXCEPT !.audioRet = Ret("disableEffect", FALSE)]

\* AudioProcessor.updateEffectParameter: ContentParameterStore.setParameter up
\* to the point where it awaits the storage write.
updateEffectParameter(a, effectName, parameterName, value) ==
  IF ~isValidParameter(effectName, parameterName, value)
  THEN [a EXCEPT !.audioRet = Ret("setParameter", FALSE)]
  ELSE LET stored == [a.parameters EXCEPT ![effectName][parameterName] = value.n]
           n == notifyListeners(parameterChangeListeners, a.effectNodes, a.nodeParams,
                                effectName, parameterName, value.n)
       IN  [a EXCEPT
              !.parameters = stored,
              !.nodeParams = n.nodeParams,
              !.pendingParamWrites = IF n.thrown THEN @ ELSE Append(@, stored),
              !.audioRet = [Ret("setParameter", ~n.thrown) EXCEPT
                              !.notified = ProcessorListener \in Range(n.calls),
                              !.calls = n.calls,
                              !.thrown = n.thrown,
                              !.set = <<effectName, parameterName, value.n>>],
              !.previousNode = NoPrevious]

(***************************************************************************)
(* The MIDI engine: MidiController, the callbacks ContentScriptManager     *)
(* registers on it, and MidiStorageManager over chrome.storage.local.      *)
(***************************************************************************)
\* Hardware MIDI inputs plugged in (midiAccess.inputs).
MaxDevices == 2
\* connectToDevice calls that may await their storage read at once.
MaxPendingConnects == 1
\* MidiStorageManager operations that may be in flight at once.
MaxStorageOps == 1
\* The same where the operations race each other.
MaxRacingOps == 2
\* Mappings the linking specification lets the table hold.
MaxLinks == 2
\* Restore attempts the page may start from one cause.
MaxAttempts == 3
\* setParameter calls of the popup that may await their delivery at once.
MaxPopupSends == 1

HardwareInputs == 1..MaxDevices

\* connectedDeviceId === null
NoDevice == 0

\* A device id that midiAccess.inputs does not hold.
UnpluggedDevice == MaxDevices + 1

\* An optional field of a mapping that is absent (midiNote, midiCC).
Undefined == -1

\* mapping.type: `${part0}-${part1}` of the target id.
EffectToggle    == <<"effect", "toggle">>
EffectParameter == <<"effect", "parameter">>

\* lastActivity === null, and an activity as far as the engine reads it: its
\* type and the first two bytes of rawData.
NoActivity == [type |-> "null", status |-> 0, data1 |-> 0]
Activity(type, status, data1) == [type |-> type, status |-> status, data1 |-> data1]


\* A callback of MidiControllerEvents.
Event(ev, id, value) == [ev |-> ev, id |-> id, value |-> value]

\* A channel taken from the low nibble without the + 1.
Channel_zeroBased(status) == status % 16

\* status & 0xf0 and (status & 0x0f) + 1
MessageType(status) == (status \div 16) * 16
Channel(status)     == (status % 16) + 1

\* MidiController.getMidiKey
getMidiKey(type, channel, noteOrCC) == <<type, channel, noteOrCC>>

\* MidiController.parseMidiMessage
parseMidiMessage(status, data1, data2) ==
  CASE MessageType(status) = 144 -> Activity("note", status, data1)
    [] MessageType(status) = 128 -> Activity("note", status, data1)
    [] MessageType(status) = 176 -> Activity("control", status, data1)
    [] MessageType(status) = 192 -> NoActivity
    [] MessageType(status) = 224 -> Activity("control", status, data1)
    [] OTHER                     -> Activity("unknown", status, data1)

\* A scaling that rounds down.
MathRoundScaled_floor(data2) == (100 * data2) \div 127

\* Math.round((data2 / 127) * 100): the quotient is never half-way between two
\* integers for data2 in 0..127, so rounding is floor(x + 1/2).
MathRoundScaled(data2) == (200 * data2 + 127) \div 254

\* checkMidiMappings: the value computed for one mapping.
DispatchValue(mapping, data2) ==
  IF mapping.midiType = "note"
  THEN IF mapping.type = EffectToggle
       THEN (IF data2 < 64 THEN 0 ELSE 1)
       ELSE MathRoundScaled(data2)
  ELSE LET scaledValue == MathRoundScaled(data2)
       IN  IF mapping.type = EffectToggle
           THEN (IF scaledValue < 50 THEN 0 ELSE 1)
           ELSE scaledValue

\* A skip test that knows the Note-Off status only.
SkipsMapping_noteOffOnly(mapping, status, data2) ==
  mapping.midiType = "note" /\ MessageType(status) = 128

\* checkMidiMappings: note off, and note on with velocity 0, skip note mappings.
SkipsMapping(mapping, status, data2) ==
  /\ mapping.midiType = "note"
  /\ \/ MessageType(status) = 128
     \/ MessageType(status) = 144 /\ data2 = 0

\* The mappings the table holds under a key (midiMappings.get(key) || []).
MappingsAt(table, midiKey) ==
  IF midiKey \in DOMAIN table THEN table[midiKey] ELSE << >>

\* The number of mappings in the table.
MappingCount(table) ==
  Cardinality(UNION { { <<k, i>> : i \in 1..Len(table[k]) } : k \in DOMAIN table })

\* checkMidiMappings: the mappings of the message's key that are not skipped,
\* in table order.
DueMappings(table, activity, status, data1, data2) ==
  LET mappingArray == MappingsAt(table, getMidiKey(activity.type, Channel(status), data1))
  IN  SelectSeq(mappingArray, LAMBDA m : ~SkipsMapping(m, status, data2))

\* checkMidiMappings: the onMidiMappingTriggered calls, in table order.
checkMidiMappings(table, activity, status, data1, data2) ==
  LET due == DueMappings(table, activity, status, data1, data2)
  IN  [i \in 1..Len(due) |->
         Event("onMidiMappingTriggered", due[i].id, DispatchValue(due[i], data2))]

\* A mapping-existence test that never finds the mapping.
mappingExists_never(table, targetId, midiType, midiChannel, midiValue) == FALSE

\* MidiController.mappingExists
mappingExists(table, targetId, midiType, midiChannel, midiValue) ==
  LET existingMappings == MappingsAt(table, getMidiKey(midiType, midiChannel, midiValue))
  IN  \E i \in 1..Len(existingMappings) :
        /\ existingMappings[i].id = targetId
        /\ existingMappings[i].midiType = midiType
        /\ existingMappings[i].midiChannel = midiChannel
        /\ \/ midiType = "note" /\ existingMappings[i].midiNote = midiValue
           \/ midiType = "control" /\ existingMappings[i].midiCC = midiValue

\* midiMappings.set(key, array) and midiMappings.delete(key)
MapSet(table, midiKey, array) ==
  [k \in DOMAIN table \cup {midiKey} |-> IF k = midiKey THEN array ELSE table[k]]
MapDelete(table, midiKey) ==
  [k \in DOMAIN table \ {midiKey} |-> table[k]]

\* The StoredMidiMapping written for a mapping, and the mapping read back from
\* it: the fields are copied one by one, absent ones stay absent.
StoredMapping(m) ==
  [id |-> m.id, type |-> m.type, effect |-> m.effect, midiType |-> m.midiType,
   midiChannel |-> m.midiChannel, parameter |-> m.parameter,
   midiNote |-> m.midiNote, midiCC |-> m.midiCC]

\* A MidiStorageManager operation in flight.
StorageOp(op, device, mapping, phase) ==
  [op |-> op, device |-> device, mapping |-> mapping, phase |-> phase,
   granted |-> FALSE, devices |-> EmptyMap]

\* The mapping argument of an operation that takes none.
NoMapping ==
  [id |-> << >>, type |-> << >>, effect |-> "", midiType |-> "", midiChannel |-> 0,
   parameter |-> << >>, midiNote |-> Undefined, midiCC |-> Undefined]

(***************************************************************************)
(* MidiController's methods, on the engine's state as one record.          *)
(***************************************************************************)
\* The engine as the methods see it; events collects the callbacks they fire.
Controller ==
  [ midiAccess |-> midiAccess, hasPermission |-> hasPermission,
    availableDevices |-> availableDevices, isConnected |-> isConnected,
    connectedDeviceId |-> connectedDeviceId, isLearning |-> isLearning,
    isLinked |-> isLinked, lastActivity |-> lastActivity,
    midiMappings |-> midiMappings, listening |-> listening,
    storageOps |-> storageOps, events |-> << >> ]

\* A MidiStorageManager method is called and not awaited (void).
StartOp(c, op) == [c EXCEPT !.storageOps = Append(@, op)]

Fire(c, event) == [c EXCEPT !.events = Append(@, event)]

\* midiAccess.inputs.get(connectedDeviceId) finds a device.
HasConnectedInput(c) ==
  c.midiAccess /\ c.connectedDeviceId # NoDevice /\ c.connectedDeviceId \in HardwareInputs

\* MidiController.updateMidiListening
updateMidiListening(c) ==
  IF c.isConnected /\ HasConnectedInput(c)
  THEN IF c.isLearning \/ c.isLinked
       THEN [c EXCEPT !.listening = @ \cup {c.connectedDeviceId}]
       ELSE [c EXCEPT !.listening = @ \ {c.connectedDeviceId}]
  ELSE c

\* A linked state that is never recomputed.
updateLinkedState_never(c) == c

\* MidiController.updateLinkedState
updateLinkedState(c) ==
  LET hasActiveMappings == DOMAIN c.midiMappings # {}
      wasLinked == c.isLinked
      next == [c EXCEPT !.isLinked = hasActiveMappings]
  IN  IF wasLinked # next.isLinked THEN updateMidiListening(next) ELSE next

\* MidiController.disconnect
disconnect(c, clearLastActive, clearAllConfigurations) ==
  LET s1 == IF HasConnectedInput(c)
            THEN [c EXCEPT !.listening = @ \ {c.connectedDeviceId}]
            ELSE c
      s2 == [s1 EXCEPT !.isConnected = FALSE, !.isLearning = FALSE,
                       !.lastActivity = NoActivity, !.midiMappings = EmptyMap]
      s3 == IF clearLastActive
            THEN StartOp(s2, StorageOp("clearLastActiveDevice", NoDevice, NoMapping, "set"))
            ELSE s2
      s4 == IF clearAllConfigurations
            THEN StartOp(s3, StorageOp("clearAllDeviceConfigurations", NoDevice, NoMapping,
                                       "removeDevices"))
            ELSE s3
      s5 == updateLinkedState(s4)
  IN  Fire([s5 EXCEPT !.connectedDeviceId = NoDevice],
           Event("onConnectionChange", << >>, 0))

\* A setLearning that leaves the last activity in place.
setLearning_keepsActivity(c, enabled) ==
  updateMidiListening([c EXCEPT !.isLearning = enabled])

\* MidiController.setLearning
setLearning(c, enabled) ==
  updateMidiListening(
    [c EXCEPT !.isLearning = enabled,
              !.lastActivity = IF enabled THEN @ ELSE NoActivity])

\* ContentScriptManager.onMidiMappingCreated: learning is switched off.
onMidiMappingCreated(c, mapping) ==
  setLearning(Fire(c, Event("onMidiMappingCreated", mapping.id, 0)), FALSE)

\* remainingParts.join('-') when it is not the empty string; << >> when the
\* mapping gets no parameter.
ParameterOf(remainingParts) ==
  IF remainingParts = <<"">> THEN << >> ELSE remainingParts

\* MidiController.createMidiLinkFromActivity
createMidiLinkFromActivity(c, targetId, activity) ==
  IF activity.type # "note" /\ activity.type # "control" THEN c
  ELSE IF activity.status = 0 THEN c
  ELSE IF Len(targetId) < 3 THEN c
  ELSE IF targetId[3] = "" THEN c
  ELSE
    LET channel == Channel(activity.status)
        data1   == activity.data1
        mapping ==
          [id |-> targetId,
           type |-> <<targetId[1], targetId[2]>>,
           effect |-> targetId[3],
           midiType |-> activity.type,
           midiChannel |-> channel,
           parameter |-> ParameterOf(SubSeq(targetId, 4, Len(targetId))),
           midiNote |-> IF activity.type = "note" THEN data1 ELSE Undefined,
           midiCC |-> IF activity.type = "control" THEN data1 ELSE Undefined]
    IN  IF mappingExists(c.midiMappings, targetId, mapping.midiType, channel, data1)
        THEN c
        ELSE
          LET midiKey == getMidiKey(mapping.midiType, channel, data1)
              s1 == [c EXCEPT !.midiMappings =
                        MapSet(@, midiKey, Append(MappingsAt(@, midiKey), mapping))]
              s2 == IF c.connectedDeviceId # NoDevice
                    THEN StartOp(s1, StorageOp("saveMidiMapping", c.connectedDeviceId,
                                               StoredMapping(mapping), "get"))
                    ELSE s1
          IN  onMidiMappingCreated(updateLinkedState(s2), mapping)

\* MidiController.requestMidiLink
requestMidiLink(c, targetId) ==
  IF c.lastActivity = NoActivity THEN c
  ELSE createMidiLinkFromActivity(c, targetId, c.lastActivity)

\* A removal that keeps the key of an emptied array in the table.
removeSpecificMapping_keepsKey(c, midiType, midiChannel, midiValue) ==
  LET midiKey == getMidiKey(midiType, midiChannel, midiValue)
      mappingArray == MappingsAt(c.midiMappings, midiKey)
  IN  IF Len(mappingArray) > 0
      THEN [c |-> updateLinkedState(
                    [c EXCEPT !.midiMappings = MapSet(@, midiKey, Tail(mappingArray))]),
            result |-> TRUE]
      ELSE [c |-> c, result |-> FALSE]

\* MidiController.removeSpecificMapping
removeSpecificMapping(c, midiType, midiChannel, midiValue) ==
  LET midiKey == getMidiKey(midiType, midiChannel, midiValue)
      mappingArray == MappingsAt(c.midiMappings, midiKey)
  IN  IF Len(mappingArray) > 0
      THEN LET rest == Tail(mappingArray)
               s1 == [c EXCEPT !.midiMappings =
                         IF Len(rest) = 0 THEN MapDelete(@, midiKey)
                         ELSE MapSet(@, midiKey, rest)]
               s2 == IF c.connectedDeviceId # NoDevice
                     THEN StartOp(s1, StorageOp("removeMidiMapping", c.connectedDeviceId,
                            [NoMapping EXCEPT !.midiType = midiType,
                                              !.midiChannel = midiChannel,
                                              !.midiNote = IF midiType = "note"
                                                           THEN midiValue ELSE Undefined,
                                              !.midiCC = IF midiType = "control"
                                                         THEN midiValue ELSE Undefined],
                            "get"))
                     ELSE s1
           IN  [c |-> updateLinkedState(s2), result |-> TRUE]
      ELSE [c |-> c, result |-> FALSE]

\* A restore that does not test whether the mapping is already in the table.
RECURSIVE RestoreEach_noTest(_, _, _)
RestoreEach_noTest(table, storedMappings, i) ==
  IF i > Len(storedMappings) THEN table
  ELSE LET mapping == StoredMapping(storedMappings[i])
           midiValue == IF mapping.midiNote # Undefined THEN mapping.midiNote
                        ELSE mapping.midiCC
           midiKey == getMidiKey(mapping.midiType, mapping.midiChannel, midiValue)
       IN  IF midiValue = Undefined
           THEN RestoreEach_noTest(table, storedMappings, i + 1)
           ELSE RestoreEach_noTest(
                  MapSet(table, midiKey, Append(MappingsAt(table, midiKey), mapping)),
                  storedMappings, i + 1)

\* restoreMidiMappings: the loop over the stored mappings.
RECURSIVE RestoreEach(_, _, _)
RestoreEach(table, storedMappings, i) ==
  IF i > Len(storedMappings) THEN table
  ELSE LET mapping == StoredMapping(storedMappings[i])
           \* mapping.midiNote ?? mapping.midiCC
           midiValue == IF mapping.midiNote # Undefined THEN mapping.midiNote
                        ELSE mapping.midiCC
           midiKey == getMidiKey(mapping.midiType, mapping.midiChannel, midiValue)
       IN  IF midiValue = Undefined
              \/ mappingExists(table, mapping.id, mapping.midiType, mapping.midiChannel,
                               midiValue)
           THEN RestoreEach(table, storedMappings, i + 1)
           ELSE RestoreEach(
                  MapSet(table, midiKey, Append(MappingsAt(table, midiKey), mapping)),
                  storedMappings, i + 1)

\* MidiController.restoreMidiMappings
restoreMidiMappings(c, storedMappings) ==
  updateLinkedState([c EXCEPT !.midiMappings = RestoreEach(@, storedMappings, 1)])

\* A handler that records the activity whether or not learning is active.
handleMidiMessage_alwaysRecords(c, status, data1, data2) ==
  LET activity == parseMidiMessage(status, data1, data2) IN
  IF activity = NoActivity THEN c
  ELSE Fire([c EXCEPT !.events =
                        @ \o checkMidiMappings(c.midiMappings, activity, status, data1, data2),
                      !.lastActivity = activity],
            Event("onMidiActivity", << >>, 0))

\* MidiController.handleMidiMessage
handleMidiMessage(c, status, data1, data2) ==
  LET activity == parseMidiMessage(status, data1, data2) IN
  IF activity = NoActivity THEN c
  ELSE LET s1 == [c EXCEPT !.events =
                     @ \o checkMidiMappings(c.midiMappings, activity, status, data1, data2)]
       IN  IF c.isLearning
           THEN Fire([s1 EXCEPT !.lastActivity = activity],
                     Event("onMidiActivity", << >>, 0))
           ELSE s1

\* The parameter name a mapping carries: its parts joined with '-'.  No
\* parameter of EFFECT_DEFINITIONS has a hyphen in its name.
ParameterName(parts) == IF Len(parts) = 1 THEN parts[1] ELSE "hyphenated"

\* A trigger callback that reads the toggle value the wrong way round.
onMidiMappingTriggered_inverted(a, mapping, value, broken) ==
  IF mapping.type = EffectToggle
  THEN IF value = 1 THEN disableEffect(a, mapping.effect, broken)
                    ELSE enableEffect(a, mapping.effect, broken)
  ELSE a

\* ContentScriptManager.onMidiMappingTriggered
onMidiMappingTriggered(a, mapping, value, broken) ==
  IF mapping.type = EffectToggle
  THEN IF mapping.effect # ""
       THEN IF value = 1 THEN enableEffect(a, mapping.effect, broken)
                         ELSE disableEffect(a, mapping.effect, broken)
       ELSE a
  ELSE IF mapping.type = EffectParameter
  THEN IF mapping.effect # "" /\ mapping.parameter # << >>
       THEN updateEffectParameter(a, mapping.effect, ParameterName(mapping.parameter),
                                  Num(value))
       ELSE a
  ELSE a

\* The trigger callbacks of one message, run on the processor in table order.
RECURSIVE TriggerEach(_, _, _, _, _)
TriggerEach(a, due, i, data2, broken) ==
  IF i > Len(due) THEN a
  ELSE TriggerEach(onMidiMappingTriggered(a, due[i], DispatchValue(due[i], data2), broken),
                   due, i + 1, data2, broken)

\* The processor after handleMidiMessage has made its callbacks.
processorAfterMessage(a, table, status, data1, data2, broken) ==
  LET activity == parseMidiMessage(status, data1, data2) IN
  IF activity = NoActivity THEN a
  ELSE TriggerEach(a, DueMappings(table, activity, status, data1, data2), 1, data2, broken)

\* MidiController.scanDevices
scanDevices(c) ==
  IF ~c.midiAccess THEN c
  ELSE Fire([c EXCEPT !.availableDevices = HardwareInputs],
            Event("onDevicesScanned", << >>, 0))

\* MidiController.requestMidiPermission, once the browser has answered.
requestMidiPermission(c, withUrl, granted) ==
  LET save(s) == IF withUrl
                 THEN StartOp(s, [StorageOp("saveMidiPermission", NoDevice, NoMapping, "get")
                                    EXCEPT !.granted = granted])
                 ELSE s
  IN  IF granted
      THEN Fire(scanDevices(save([c EXCEPT !.midiAccess = TRUE, !.hasPermission = TRUE])),
                Event("onPermissionChange", << >>, 1))
      ELSE Fire(save([c EXCEPT !.hasPermission = FALSE]),
                Event("onPermissionChange", << >>, 0))

\* MidiController.connectToDevice up to its await: ok is FALSE when it threw.
connectToDeviceStart(c, deviceId) ==
  IF ~c.midiAccess \/ deviceId \notin HardwareInputs
  THEN [c |-> [c EXCEPT !.isConnected = FALSE, !.connectedDeviceId = NoDevice],
        ok |-> FALSE]
  ELSE LET s1 == IF c.isConnected THEN disconnect(c, FALSE, FALSE) ELSE c
           s2 == IF s1.isLearning
                 THEN [s1 EXCEPT !.listening = @ \cup {deviceId}]
                 ELSE s1
           s3 == [s2 EXCEPT !.isConnected = TRUE, !.connectedDeviceId = deviceId]
       IN  [c |-> StartOp(s3, StorageOp("setLastActiveDevice", deviceId, NoMapping, "set")),
            ok |-> TRUE]

\* MidiController.connectToDevice after loadDeviceConfiguration has resolved.
connectToDeviceFinish(c, deviceId, exists, mappings) ==
  LET s1 == IF ~exists
            THEN StartOp(c, StorageOp("saveDeviceConfiguration", deviceId, NoMapping, "get"))
            ELSE restoreMidiMappings(c, mappings)
  IN  Fire(s1, Event("onConnectionChange", << >>, IF s1.isConnected THEN 1 ELSE 0))

\* restoreMidiState / autoRestoreAfterPermissionGrant after their connectToDevice
\* has resolved.
restoreAfterConnect(c, midiMappingsOfState) ==
  IF ~c.isConnected THEN c ELSE restoreMidiMappings(c, midiMappingsOfState)

(***************************************************************************)
(* MidiStorageManager: one step of an operation in flight.                 *)
(***************************************************************************)
\* devices[deviceId].mappings.findIndex of saveMidiMapping; 0 when none matches.
SaveIndex(stored, mapping) ==
  LET hits == { i \in 1..Len(stored) :
                  /\ stored[i].midiType = mapping.midiType
                  /\ stored[i].midiChannel = mapping.midiChannel
                  /\ stored[i].midiNote = mapping.midiNote
                  /\ stored[i].midiCC = mapping.midiCC
                  /\ stored[i].id = mapping.id }
  IN  IF hits = {} THEN 0 ELSE CHOOSE i \in hits : \A j \in hits : i <= j

\* devices[deviceId].mappings.findIndex of removeMidiMapping; 0 when none matches.
RemoveIndex(stored, key) ==
  LET hits == { i \in 1..Len(stored) :
                  /\ stored[i].midiType = key.midiType
                  /\ stored[i].midiChannel = key.midiChannel
                  /\ \/ key.midiType = "note" /\ stored[i].midiNote = key.midiNote
                     \/ key.midiType = "control" /\ stored[i].midiCC = key.midiCC }
  IN  IF hits = {} THEN 0 ELSE CHOOSE i \in hits : \A j \in hits : i <= j

\* array.splice(index, 1)
Splice(seq, index) ==
  SubSeq(seq, 1, index - 1) \o SubSeq(seq, index + 1, Len(seq))

\* The state of chrome.storage.local and of one operation after its next step;
\* done tells that the operation has finished.
StorageStepOf(op, devices, lastActive, permission) ==
  LET same == [devices |-> devices, lastActive |-> lastActive,
               permission |-> permission, op |-> op, done |-> TRUE]
  IN
  CASE op.op = "setLastActiveDevice" ->
         [same EXCEPT !.lastActive = op.device]
    [] op.op = "clearLastActiveDevice" ->
         [same EXCEPT !.lastActive = NoDevice]
    [] op.op = "clearAllDeviceConfigurations" /\ op.phase = "removeDevices" ->
         [same EXCEPT !.devices = EmptyMap, !.done = FALSE,
                      !.op = [op EXCEPT !.phase = "removeLastActive"]]
    [] op.op = "clearAllDeviceConfigurations" /\ op.phase = "removeLastActive" ->
         [same EXCEPT !.lastActive = NoDevice]
    [] op.op = "saveMidiPermission" /\ op.phase = "get" ->
         [same EXCEPT !.done = FALSE, !.op = [op EXCEPT !.phase = "set"]]
    [] op.op = "saveMidiPermission" /\ op.phase = "set" ->
         [same EXCEPT !.permission = IF op.granted THEN "granted" ELSE "denied"]
    [] op.op = "saveDeviceConfiguration" /\ op.phase = "get" ->
         [same EXCEPT !.done = FALSE,
                      !.op = [op EXCEPT !.phase = "set",
                                        !.devices = MapSet(devices, op.device, << >>)]]
    [] op.op = "saveMidiMapping" /\ op.phase = "get" ->
         IF op.device \notin DOMAIN devices THEN same
         ELSE LET stored == devices[op.device]
                  index  == SaveIndex(stored, op.mapping)
                  next   == IF index > 0
                            THEN [stored EXCEPT ![index] = op.mapping]
                            ELSE Append(stored, op.mapping)
              IN  [same EXCEPT !.done = FALSE,
                               !.op = [op EXCEPT !.phase = "set",
                                         !.devices = MapSet(devices, op.device, next)]]
    [] op.op = "removeMidiMapping" /\ op.phase = "get" ->
         IF op.device \notin DOMAIN devices THEN same
         ELSE LET stored == devices[op.device]
                  index  == RemoveIndex(stored, op.mapping)
              IN  IF index = 0 THEN same
                  ELSE [same EXCEPT !.done = FALSE,
                                    !.op = [op EXCEPT !.phase = "set",
                                              !.devices = MapSet(devices, op.device,
                                                                 Splice(stored, index))]]
    [] OTHER ->
         \* chrome.storage.local.set({ [MIDI_DEVICES_KEY]: devices })
         [same EXCEPT !.devices = op.devices]

(***************************************************************************)
(* Inputs of the MIDI side.                                                *)
(***************************************************************************)
\* Target ids passed to requestMidiLink, split at '-': two well-formed ones and
\* one with too few parts.
TargetInputs ==
  { <<"effect", "toggle", "distortion">>,
    <<"effect", "parameter", "reverb", "mix">>,
    <<"effect", "toggle">> }

\* Device ids passed to connectToDevice: every plugged device and an unplugged
\* one; and the first device with the unplugged one.
DeviceInputs == HardwareInputs \cup {UnpluggedDevice}
FirstDeviceInputs == {1, UnpluggedDevice}

\* Hardware messages <<status, data1, data2>>: note on (channel 1, note 60,
\* velocity 100) and program change.
MessageInputs ==
  { <<144, 60, 100>>, <<192, 5, 0>> }

\* MIDI keys passed to removeSpecificMapping.
KeyInputs == { <<"note", 1, 60>>, <<"control", 1, 7>> }

\* A stored mapping as createMidiLinkFromActivity writes it for a note.
StoredNoteMapping(targetId, note) ==
  [id |-> targetId, type |-> <<targetId[1], targetId[2]>>, effect |-> targetId[3],
   midiType |-> "note", midiChannel |-> 1,
   parameter |-> SubSeq(targetId, 4, Len(targetId)),
   midiNote |-> note, midiCC |-> Undefined]

\* What chrome.storage.local may hold for MIDI when the page loads: nothing, or
\* the configuration of device 1 with two mappings stacked on one key, device 1
\* being the last active device and the domain's permission stored.
StoredMidiChoices ==
  { [devices |-> EmptyMap, lastActive |-> NoDevice, permission |-> "unset"],
    [devices |-> (1 :> << StoredNoteMapping(<<"effect", "toggle", "distortion">>, 60),
                          StoredNoteMapping(<<"effect", "parameter", "reverb", "mix">>, 60) >>),
     lastActive |-> 1, permission |-> "granted"] }

\* What the last step returned: the method, its result, and the MIDI key,
\* target id or message it was given.
MidiRet(op, result, key) == [op |-> op, result |-> result, key |-> key]
NoMidiRet == MidiRet("none", "none", << >>)

\* A connectToDevice call awaiting loadDeviceConfiguration.
PendingConnect(deviceId, owner) ==
  [device |-> deviceId, owner |-> owner, phase |-> "get", exists |-> FALSE,
   mappings |-> << >>]

\* No restoreMidiState / autoRestoreAfterPermissionGrant call is in progress.
NoRestoreCall == [kind |-> "none", phase |-> "none", device |-> NoDevice, mappings |-> << >>]

\* seq without its i-th element.
RemoveAt(seq, i) == SubSeq(seq, 1, i - 1) \o SubSeq(seq, i + 1, Len(seq))

(***************************************************************************)
(* Actions of the MIDI side.                                               *)
(***************************************************************************)
TakeController(c) ==
  /\ midiAccess' = c.midiAccess
  /\ hasPermission' = c.hasPermission
  /\ availableDevices' = c.availableDevices
  /\ isConnected' = c.isConnected
  /\ connectedDeviceId' = c.connectedDeviceId
  /\ isLearning' = c.isLearning
  /\ isLinked' = c.isLinked
  /\ lastActivity' = c.lastActivity
  /\ midiMappings' = c.midiMappings
  /\ listening' = c.listening
  /\ storageOps' = c.storageOps
  /\ midiEvents' = c.events

\* The operations the step starts fit the bound on operations in flight.
Fits(c) == Len(c.storageOps) <= storageLimit

durableVars == << devicesStore, lastActiveStore, permissionStore, storageLimit >>

\* MidiController.requestMidiPermission
RequestMidiPermission(withUrl, granted) ==
  /\ UNCHANGED << audioVars, managerVars, popupVars >>
  /\ LET c == requestMidiPermission(Controller, withUrl, granted)
     IN  /\ Fits(c)
         /\ TakeController(c)
         /\ midiRet' = MidiRet("requestMidiPermission", IF granted THEN "true" ELSE "false", << >>)
         /\ UNCHANGED << pendingConnects, restoreCall, durableVars >>

\* MidiController.connectToDevice, up to its await or its throw.
ConnectToDevice(deviceId) ==
  /\ UNCHANGED << audioVars, managerVars, popupVars >>
  /\ LET r == connectToDeviceStart(Controller, deviceId)
     IN  IF r.ok
         THEN /\ Len(pendingConnects) < MaxPendingConnects
              /\ Fits(r.c)
              /\ TakeController(r.c)
              /\ pendingConnects' = Append(pendingConnects, PendingConnect(deviceId, "caller"))
              /\ midiRet' = MidiRet("connectToDevice", "pending", << >>)
              /\ UNCHANGED << restoreCall, durableVars >>
         ELSE /\ TakeController(r.c)
              /\ midiRet' = MidiRet("connectToDevice", "rejected", << >>)
              /\ UNCHANGED << pendingConnects, restoreCall, durableVars >>

\* The storage read of loadDeviceConfiguration is served.
ConnectReads(i) ==
  /\ UNCHANGED << audioVars, managerVars, popupVars >>
  /\ /\ i \in DOMAIN pendingConnects
     /\ pendingConnects[i].phase = "get"
     /\ LET p == pendingConnects[i]
            exists == p.device \in DOMAIN devicesStore
        IN  pendingConnects' =
              [pendingConnects EXCEPT ![i] =
                 [p EXCEPT !.phase = "loaded", !.exists = exists,
                           !.mappings = IF exists THEN devicesStore[p.device] ELSE << >>]]
     /\ midiEvents' = << >>
     /\ midiRet' = NoMidiRet
     /\ UNCHANGED << midiAccess, hasPermission, availableDevices, isConnected,
                     connectedDeviceId, isLearning, isLinked, lastActivity, midiMappings,
                     listening, restoreCall, storageOps, durableVars >>

\* connectToDevice resumes after its await; a restore call that awaited it
\* resumes right after.
ConnectContinues(i) ==
  /\ UNCHANGED << audioVars, managerVars, popupVars >>
  /\ /\ i \in DOMAIN pendingConnects
     /\ pendingConnects[i].phase = "loaded"
     /\ LET p  == pendingConnects[i]
            c1 == connectToDeviceFinish(Controller, p.device, p.exists, p.mappings)
            c2 == IF p.owner = "restore" THEN restoreAfterConnect(c1, restoreCall.mappings)
                  ELSE c1
        IN  /\ Fits(c2)
            /\ TakeController(c2)
            /\ midiRet' =
                 IF p.owner = "restore"
                 THEN MidiRet(restoreCall.kind, IF c1.isConnected THEN "true" ELSE "false", << >>)
                 ELSE MidiRet("connectToDevice", "resolved", << >>)
            /\ restoreCall' = IF p.owner = "restore" THEN NoRestoreCall ELSE restoreCall
     /\ pendingConnects' = RemoveAt(pendingConnects, i)
     /\ UNCHANGED durableVars

\* MidiController.disconnect
Disconnect(clearLastActive, clearAllConfigurations) ==
  /\ UNCHANGED << audioVars, managerVars, popupVars >>
  /\ LET c == disconnect(Controller, clearLastActive, clearAllConfigurations)
     IN  /\ Fits(c)
         /\ TakeController(c)
         /\ midiRet' = MidiRet("disconnect", "none", << >>)
         /\ UNCHANGED << pendingConnects, restoreCall, durableVars >>

\* MidiController.setLearning
SetLearning(enabled) ==
  /\ UNCHANGED << audioVars, managerVars, popupVars >>
  /\ /\ TakeController(setLearning(Controller, enabled))
     /\ midiRet' = MidiRet("setLearning", "none", << >>)
     /\ UNCHANGED << pendingConnects, restoreCall, durableVars >>

\* MidiController.requestMidiLink
RequestMidiLink(targetId) ==
  /\ UNCHANGED << audioVars, managerVars, popupVars >>
  /\ LET c == requestMidiLink(Controller, targetId)
     IN  /\ Fits(c)
         /\ TakeController(c)
         /\ midiRet' = MidiRet("requestMidiLink", "none", targetId)
         /\ UNCHANGED << pendingConnects, restoreCall, durableVars >>

\* MidiController.removeSpecificMapping
RemoveSpecificMapping(midiType, midiChannel, midiValue) ==
  /\ UNCHANGED << audioVars, managerVars, popupVars >>
  /\ LET r == removeSpecificMapping(Controller, midiType, midiChannel, midiValue)
     IN  /\ Fits(r.c)
         /\ TakeController(r.c)
         /\ midiRet' = MidiRet("removeSpecificMapping", IF r.result THEN "true" ELSE "false",
                               getMidiKey(midiType, midiChannel, midiValue))
         /\ UNCHANGED << pendingConnects, restoreCall, durableVars >>

\* A hardware input whose onmidimessage is the engine's handler delivers a message.
HandleMidiMessage(device, status, data1, data2) ==
  /\ UNCHANGED << audioVars, managerVars, popupVars >>
  /\ /\ device \in listening
     /\ TakeController(handleMidiMessage(Controller, status, data1, data2))
     /\ midiRet' = MidiRet("handleMidiMessage", "none", <<status, data1, data2>>)
     /\ UNCHANGED << pendingConnects, restoreCall, durableVars >>

\* device.onmidimessage in the page: MidiController.handleMidiMessage with the
\* callbacks ContentScriptManager registered, which act on the AudioProcessor.
OnMidiMessage(device, status, data1, data2, broken) ==
  /\ device \in listening
  /\ LET a == processorAfterMessage(Processor, midiMappings, status, data1, data2, broken)
     IN  /\ Len(a.pendingParamWrites) <= MaxPendingWrites
         /\ TakeProcessor(a)
  /\ TakeController(handleMidiMessage(Controller, status, data1, data2))
  /\ midiRet' = MidiRet("handleMidiMessage", "none", <<status, data1, data2>>)
  /\ UNCHANGED << processorFrame, pendingConnects, restoreCall, durableVars,
                  managerVars, popupVars >>

\* chrome.storage.local serves the next request of an operation in flight.
StorageStep(i) ==
  /\ UNCHANGED << audioVars, managerVars, popupVars >>
  /\ /\ i \in DOMAIN storageOps
     /\ LET r == StorageStepOf(storageOps[i], devicesStore, lastActiveStore, permissionStore)
        IN  /\ devicesStore' = r.devices
            /\ lastActiveStore' = r.lastActive
            /\ permissionStore' = r.permission
            /\ storageOps' = IF r.done THEN RemoveAt(storageOps, i)
                             ELSE [storageOps EXCEPT ![i] = r.op]
     /\ midiEvents' = << >>
     /\ midiRet' = NoMidiRet
     /\ UNCHANGED << midiAccess, hasPermission, availableDevices, isConnected,
                     connectedDeviceId, isLearning, isLinked, lastActivity, midiMappings,
                     listening, pendingConnects, restoreCall, storageLimit >>

RestoreConnects_propagates(c, call) ==
  LET r == connectToDeviceStart(c, call.device)
  IN  IF r.ok
      THEN /\ Len(pendingConnects) < MaxPendingConnects
           /\ Fits(r.c)
           /\ TakeController(r.c)
           /\ pendingConnects' = Append(pendingConnects, PendingConnect(call.device, "restore"))
           /\ restoreCall' = [call EXCEPT !.phase = "connecting"]
           /\ midiRet' = NoMidiRet
      ELSE /\ Fits(r.c)
           /\ TakeController(r.c)
           /\ restoreCall' = NoRestoreCall
           /\ midiRet' = MidiRet(call.kind, "rejected", << >>)
           /\ UNCHANGED pendingConnects

\* restoreMidiState / autoRestoreAfterPermissionGrant reach their
\* connectToDevice call: it throws (caught by the caller) or starts waiting.
RestoreConnects(c, call) ==
  LET r == connectToDeviceStart(c, call.device)
  IN  IF r.ok
      THEN /\ Len(pendingConnects) < MaxPendingConnects
           /\ Fits(r.c)
           /\ TakeController(r.c)
           /\ pendingConnects' = Append(pendingConnects, PendingConnect(call.device, "restore"))
           /\ restoreCall' = [call EXCEPT !.phase = "connecting"]
           /\ midiRet' = NoMidiRet
      ELSE /\ Fits(r.c)
           /\ TakeController(r.c)
           /\ restoreCall' = NoRestoreCall
           /\ midiRet' = MidiRet(call.kind, "false", << >>)
           /\ UNCHANGED pendingConnects

\* A restore call ends without having touched the engine.
RestoreEnds(result) ==
  /\ restoreCall' = NoRestoreCall
  /\ midiRet' = MidiRet(restoreCall.kind, result, << >>)
  /\ midiEvents' = << >>
  /\ UNCHANGED << midiAccess, hasPermission, availableDevices, isConnected,
                  connectedDeviceId, isLearning, isLinked, lastActivity, midiMappings,
                  listening, pendingConnects, storageOps >>

\* A restore call moves on to its next await.
RestoreAwaits(call) ==
  /\ restoreCall' = call
  /\ midiRet' = NoMidiRet
  /\ midiEvents' = << >>
  /\ UNCHANGED << midiAccess, hasPermission, availableDevices, isConnected,
                  connectedDeviceId, isLearning, isLinked, lastActivity, midiMappings,
                  listening, pendingConnects, storageOps >>

\* MidiController.autoRestoreAfterPermissionGrant is called: it awaits loadMidiState.
AutoRestoreAfterPermissionGrant ==
  /\ UNCHANGED << audioVars, managerVars, popupVars >>
  /\ /\ restoreCall = NoRestoreCall
     /\ RestoreAwaits([NoRestoreCall EXCEPT !.kind = "autoRestoreAfterPermissionGrant",
                                            !.phase = "lastActive"])
     /\ UNCHANGED durableVars

\* MidiController.restoreMidiState is called: it awaits getMidiPermission.
RestoreMidiState ==
  /\ UNCHANGED << audioVars, managerVars, popupVars >>
  /\ /\ restoreCall = NoRestoreCall
     /\ RestoreAwaits([NoRestoreCall EXCEPT !.kind = "restoreMidiState",
                                            !.phase = "permission"])
     /\ UNCHANGED durableVars

\* restoreMidiState: getMidiPermission resolves.
RestoreReadsPermission ==
  /\ UNCHANGED << audioVars, managerVars, popupVars >>
  /\ /\ restoreCall.phase = "permission"
     /\ IF permissionStore # "granted"
        THEN RestoreEnds("false")
        ELSE RestoreAwaits([restoreCall EXCEPT !.phase = "lastActive"])
     /\ UNCHANGED durableVars

\* loadMidiState: getLastActiveDevice resolves.
RestoreReadsLastActive ==
  /\ UNCHANGED << audioVars, managerVars, popupVars >>
  /\ /\ restoreCall.phase = "lastActive"
     /\ IF lastActiveStore = NoDevice
        THEN RestoreEnds("false")
        ELSE RestoreAwaits([restoreCall EXCEPT !.phase = "configuration",
                                               !.device = lastActiveStore])
     /\ UNCHANGED durableVars

\* loadMidiState: loadDeviceConfiguration resolves; autoRestoreAfterPermissionGrant
\* goes on to connectToDevice, restoreMidiState to requestMidiPermission.
RestoreReadsConfiguration ==
  /\ UNCHANGED << audioVars, managerVars, popupVars >>
  /\ /\ restoreCall.phase = "configuration"
     /\ LET call == [restoreCall EXCEPT !.mappings =
                       IF restoreCall.device \in DOMAIN devicesStore
                       THEN devicesStore[restoreCall.device] ELSE << >>]
        IN  IF call.kind = "restoreMidiState"
            THEN RestoreAwaits([call EXCEPT !.phase = "requestPermission"])
            ELSE RestoreConnects(Controller, call)
     /\ UNCHANGED durableVars

\* restoreMidiState: its requestMidiPermission(url) resolves.
RestorePermissionResolves(granted) ==
  /\ UNCHANGED << audioVars, managerVars, popupVars >>
  /\ /\ restoreCall.phase = "requestPermission"
     /\ LET c == requestMidiPermission(Controller, TRUE, granted)
        IN  IF granted
            THEN RestoreConnects(c, restoreCall)
            ELSE /\ Fits(c)
                 /\ TakeController(c)
                 /\ restoreCall' = NoRestoreCall
                 /\ midiRet' = MidiRet("restoreMidiState", "false", << >>)
                 /\ UNCHANGED pendingConnects
     /\ UNCHANGED durableVars

(***************************************************************************)
(* ContentScriptManager: the automatic restore at load and its fallback on *)
(* a user gesture.                                                         *)
(***************************************************************************)
GestureTypes == {"click", "keydown", "touchstart"}

Manager ==
  [ autoRestoreAttempted |-> autoRestoreAttempted,
    autoRestoreOnUserGesture |-> autoRestoreOnUserGesture,
    gestureListeners |-> gestureListeners,
    documentLoading |-> documentLoading,
    restoreAttempts |-> restoreAttempts,
    attemptsRun |-> attemptsRun ]

TakeManager(m) ==
  /\ autoRestoreAttempted' = m.autoRestoreAttempted
  /\ autoRestoreOnUserGesture' = m.autoRestoreOnUserGesture
  /\ gestureListeners' = m.gestureListeners
  /\ documentLoading' = m.documentLoading
  /\ restoreAttempts' = m.restoreAttempts
  /\ attemptsRun' = m.attemptsRun

\* ContentScriptManager.attemptAutoRestore up to its first await (the delay).
attemptAutoRestore(m, cause) ==
  IF m.autoRestoreAttempted THEN m
  ELSE [m EXCEPT !.autoRestoreAttempted = TRUE,
                 !.restoreAttempts = Append(@, [cause |-> cause, phase |-> "delay"]),
                 !.attemptsRun[cause] = @ + 1]

\* A gesture handler that leaves the other listeners on the document.
handleUserGesture_keepsListeners(m, type) ==
  LET once == [m EXCEPT !.gestureListeners = @ \ {type}]
  IN  IF m.autoRestoreOnUserGesture /\ ~m.autoRestoreAttempted
      THEN attemptAutoRestore(once, "gesture")
      ELSE once

\* handleUserGesture of setupUserGestureListener, run by the once-listener of
\* one event type: the listener that ran is gone, and an attempt removes the
\* two others.
handleUserGesture(m, type) ==
  LET once == [m EXCEPT !.gestureListeners = @ \ {type}]
  IN  IF m.autoRestoreOnUserGesture /\ ~m.autoRestoreAttempted
      THEN [attemptAutoRestore(once, "gesture") EXCEPT !.gestureListeners = {}]
      ELSE once

\* The constructor's init(): the gesture listeners are set up, and the first
\* attempt is made now or left to DOMContentLoaded.
ManagerConstructed(loading) ==
  LET m0 == [ autoRestoreAttempted |-> FALSE, autoRestoreOnUserGesture |-> FALSE,
              gestureListeners |-> GestureTypes, documentLoading |-> loading,
              restoreAttempts |-> << >>,
              attemptsRun |-> [load |-> 0, gesture |-> 0] ]
      m  == IF loading THEN m0 ELSE attemptAutoRestore(m0, "load")
  IN  /\ autoRestoreAttempted = m.autoRestoreAttempted
      /\ autoRestoreOnUserGesture = m.autoRestoreOnUserGesture
      /\ gestureListeners = m.gestureListeners
      /\ documentLoading = m.documentLoading
      /\ restoreAttempts = m.restoreAttempts
      /\ attemptsRun = m.attemptsRun

\* DOMContentLoaded fires: its listener calls attemptAutoRestore.
DomContentLoaded ==
  /\ UNCHANGED << audioVars, midiVars, popupVars >>
  /\ documentLoading
  /\ attemptsRun.load < MaxAttempts
  /\ TakeManager(attemptAutoRestore([Manager EXCEPT !.documentLoading = FALSE], "load"))

\* The user clicks, presses a key or touches the page.
UserGesture(type) ==
  /\ UNCHANGED << audioVars, midiVars, popupVars >>
  /\ type \in gestureListeners
  /\ attemptsRun.gesture < MaxAttempts
  /\ TakeManager(handleUserGesture(Manager, type))

\* The delay of an attempt is over: it calls restoreMidiState and awaits it.
AttemptDelayEnds(i) ==
  /\ UNCHANGED << audioVars, popupVars >>
  /\ i \in DOMAIN restoreAttempts
  /\ restoreAttempts[i].phase = "delay"
  /\ restoreCall = NoRestoreCall
  /\ RestoreAwaits([NoRestoreCall EXCEPT !.kind = "restoreMidiState",
                                         !.phase = "permission"])
  /\ restoreAttempts' = [restoreAttempts EXCEPT ![i].phase = "restoring"]
  /\ UNCHANGED << durableVars, autoRestoreAttempted, autoRestoreOnUserGesture,
                  gestureListeners, documentLoading, attemptsRun >>

\* restoreMidiState has just returned to the attempt that awaits it.
ResumeDue(i) ==
  /\ i \in DOMAIN restoreAttempts
  /\ restoreAttempts[i].phase = "restoring"
  /\ midiRet.op = "restoreMidiState"

\* attemptAutoRestore resumes with the result of restoreMidiState: done when
\* restored, otherwise it awaits getMidiPermission.
AttemptResumes(i) ==
  /\ UNCHANGED << audioVars, midiVars, popupVars >>
  /\ ResumeDue(i)
  /\ IF midiRet.result = "true"
     THEN /\ autoRestoreOnUserGesture' = FALSE
          /\ restoreAttempts' = RemoveAt(restoreAttempts, i)
     ELSE /\ restoreAttempts' = [restoreAttempts EXCEPT ![i].phase = "permission"]
          /\ UNCHANGED autoRestoreOnUserGesture
  /\ UNCHANGED << autoRestoreAttempted, gestureListeners, documentLoading, attemptsRun >>

\* getMidiPermission resolves for an attempt that did not restore: with the
\* permission stored, the next gesture may try again.
AttemptReadsPermission(i) ==
  /\ UNCHANGED << audioVars, midiVars, popupVars >>
  /\ i \in DOMAIN restoreAttempts
  /\ restoreAttempts[i].phase = "permission"
  /\ IF permissionStore = "granted"
     THEN /\ autoRestoreOnUserGesture' = TRUE
          /\ autoRestoreAttempted' = FALSE
     ELSE UNCHANGED << autoRestoreOnUserGesture, autoRestoreAttempted >>
  /\ restoreAttempts' = RemoveAt(restoreAttempts, i)
  /\ UNCHANGED << gestureListeners, documentLoading, attemptsRun >>

(***************************************************************************)
(* PopupParameterStore: the popup's copy of the parameters.                *)
(***************************************************************************)
\* What the last popup setParameter returned: the call, whether its value was
\* valid, whether the content script took it, and the value the popup held
\* for the parameter when the call was made.
PopupRet(op, call, result) ==
  [op |-> op, effectName |-> call[1], parameterName |-> call[2],
   valid |-> FALSE, delivered |-> FALSE, result |-> result, before |-> 0]
NoPopupRet == PopupRet("none", <<"none", "none">>, FALSE)

\* A setParameter call of the popup that awaits sendParameterToContentScript.
PopupSend(effectName, parameterName, value, before) ==
  [effectName |-> effectName, parameterName |-> parameterName, value |-> value,
   before |-> before]

\* setParameter calls tried in the popup.
PopupSetInputs ==
  { <<"distortion", "amount", Num(70)>>,
    <<"distortion", "amount", Num(40)>>,
    <<"reverb", "mix", Num(10)>>,
    <<"distortion", "amount", Num(101)>>,
    <<"chorus", "amount", Num(50)>> }

\* BaseParameterStore.getParameter
getParameter(params, effectName, parameterName) ==
  IF effectName \notin DOMAIN params THEN 0
  ELSE IF parameterName \notin DOMAIN params[effectName] THEN 0
  ELSE params[effectName][parameterName]

\* The else branch of PopupParameterStore.setParameter: the value getParameter
\* returns now is written back.
revertLocalState(params, effectName, parameterName) ==
  [params EXCEPT ![effectName][parameterName] =
     getParameter(params, effectName, parameterName)]

\* The popup store right after its construction.
PopupConstructed ==
  /\ popupParameters = EmptyMap
  /\ popupInit = "none"
  /\ popupSends = << >>
  /\ popupWrites = << >>
  /\ popupRet = NoPopupRet

\* PopupParameterStore.initialize up to its await of the storage read.
PopupInitialize ==
  /\ UNCHANGED << audioVars, midiVars, managerVars >>
  /\ popupInit = "none"
  /\ popupParameters' = loadDefaultValues
  /\ popupInit' = "loading"
  /\ UNCHANGED << popupSends, popupWrites, popupRet >>

\* The storage read of the popup's initialize() resolves; syncWithContentScript
\* is awaited next.
PopupLoadResolves ==
  /\ UNCHANGED << audioVars, midiVars, managerVars >>
  /\ popupInit = "loading"
  /\ popupParameters' = loadFromStorage(popupParameters, paramStorage)
  /\ popupInit' = "syncing"
  /\ UNCHANGED << popupSends, popupWrites, popupRet >>

\* syncWithContentScript resolves: with the content script's parameters when
\* it answered, with nothing otherwise.
PopupSyncResolves(answered) ==
  /\ UNCHANGED << audioVars, midiVars, managerVars >>
  /\ popupInit = "syncing"
  /\ popupParameters' = IF answered
                        THEN loadFromStorage(popupParameters, parameters)
                        ELSE popupParameters
  /\ popupInit' = "done"
  /\ UNCHANGED << popupSends, popupWrites, popupRet >>

\* PopupParameterStore.setParameter up to its await of
\* sendParameterToContentScript; a rejected call returns here.
PopupSetParameter(effectName, parameterName, value) ==
  /\ UNCHANGED << audioVars, midiVars, managerVars >>
  /\ IF \/ ~isValidParameter(effectName, parameterName, value)
        \/ effectName \notin DOMAIN popupParameters
     THEN /\ popupRet' = PopupRet("setParameter", <<effectName, parameterName>>, FALSE)
          /\ UNCHANGED << popupParameters, popupSends >>
     ELSE /\ Len(popupSends) < MaxPopupSends
          /\ popupSends' =
               Append(popupSends,
                      PopupSend(effectName, parameterName, value.n,
                                getParameter(popupParameters, effectName, parameterName)))
          /\ popupParameters' =
               [popupParameters EXCEPT ![effectName][parameterName] = value.n]
          /\ UNCHANGED popupRet
  /\ UNCHANGED << popupInit, popupWrites >>

\* sendParameterToContentScript of the oldest waiting call resolves, with
\* success or without (no tab, a messaging error, a refusal), and
\* setParameter runs to its return.
PopupSendResolves(success) ==
  /\ UNCHANGED << audioVars, midiVars, managerVars >>
  /\ popupSends # << >>
  /\ LET call == Head(popupSends)
     IN  /\ popupSends' = Tail(popupSends)
         /\ IF success
            THEN /\ Len(popupWrites) < MaxPopupSends
                 /\ popupWrites' = Append(popupWrites, popupParameters)
                 /\ UNCHANGED popupParameters
            ELSE /\ popupParameters' =
                      revertLocalState(popupParameters, call.effectName, call.parameterName)
                 /\ UNCHANGED popupWrites
         /\ popupRet' =
              [PopupRet("setParameter", <<call.effectName, call.parameterName>>, success)
                 EXCEPT !.valid = TRUE, !.delivered = success, !.before = call.before]
  /\ UNCHANGED popupInit

\* A chrome.storage.local.set of the popup's saveToStorage completes.
PopupWriteCompletes ==
  /\ UNCHANGED << midiVars, managerVars >>
  /\ popupWrites # << >>
  /\ paramStorage' = Head(popupWrites)
  /\ popupWrites' = Tail(popupWrites)
  /\ UNCHANGED << audioContext, pageElements, sourceNodes, effectNodes, enabledEffects,
                  nodeParams, connections, factoryFailed, parameters, isInitialized,
                  initCalls, listenerRegistered, parameterChangeListeners,
                  pendingParamWrites, audioRet, previousNode,
                  popupParameters, popupInit, popupSends, popupRet >>

(***************************************************************************)
(* Specifications.                                                         *)
(***************************************************************************)
\* The MIDI engine right after construction, over the given stored state.
MidiConstructedWith(stored, limit) ==
  /\ storageLimit = limit
  /\ midiAccess = FALSE
  /\ hasPermission = FALSE
  /\ availableDevices = {}
  /\ isConnected = FALSE
  /\ connectedDeviceId = NoDevice
  /\ isLearning = FALSE
  /\ isLinked = FALSE
  /\ lastActivity = NoActivity
  /\ midiMappings = EmptyMap
  /\ listening = {}
  /\ pendingConnects = << >>
  /\ restoreCall = NoRestoreCall
  /\ storageOps = << >>
  /\ devicesStore = stored.devices
  /\ lastActiveStore = stored.lastActive
  /\ permissionStore = stored.permission
  /\ midiEvents = << >>
  /\ midiRet = NoMidiRet

MidiConstructed(stored) == MidiConstructedWith(stored, MaxStorageOps)

\* The AudioProcessor right after construction, over the given page and storage.
AudioConstructed(elements, stored) ==
  /\ audioContext = FALSE
  /\ pageElements = elements
  /\ sourceNodes = << >>
  /\ effectNodes = [f \in availableEffects |-> NoNode]
  /\ enabledEffects = {}
  /\ nodeParams = EmptyMap
  /\ connections = {}
  /\ factoryFailed = FALSE
  /\ parameters = loadDefaultValues
  /\ isInitialized = FALSE
  /\ initCalls = 1
  /\ listenerRegistered = FALSE
  /\ parameterChangeListeners = << >>
  /\ paramStorage = stored
  /\ pendingParamWrites = << >>
  /\ audioRet = NoRet
  /\ previousNode = NoPrevious

\* Nothing is stored for MIDI.
NothingStored == [devices |-> EmptyMap, lastActive |-> NoDevice, permission |-> "unset"]

\* After construction: the AudioProcessor constructor has registered the effects
\* and called initialize(), which loaded the defaults and awaits the storage read.
InitAudio ==
  /\ \E elements \in SUBSET Elements, stored \in StoredChoices :
       AudioConstructed(elements, stored)
  /\ MidiConstructed(NothingStored)
  /\ ManagerConstructed(TRUE)
  /\ PopupConstructed

\* The MIDI engine is constructed over what an earlier page left in storage.
InitMidi ==
  /\ AudioConstructed({}, EmptyMap)
  /\ \E stored \in StoredMidiChoices : MidiConstructed(stored)
  /\ ManagerConstructed(TRUE)
  /\ PopupConstructed

\* The engine driven through its methods, with hardware messages and the
\* storage operations completing in any order.
NextMidi ==
  \/ \E granted \in BOOLEAN : RequestMidiPermission(FALSE, granted)
  \/ \E d \in FirstDeviceInputs : ConnectToDevice(d)
  \/ \E i \in 1..MaxPendingConnects : ConnectReads(i)
  \/ \E i \in 1..MaxPendingConnects : ConnectContinues(i)
  \/ \E a \in BOOLEAN : Disconnect(a, FALSE)
  \/ \E enabled \in BOOLEAN : SetLearning(enabled)
  \/ \E t \in TargetInputs : RequestMidiLink(t)
  \/ \E k \in KeyInputs : RemoveSpecificMapping(k[1], k[2], k[3])
  \/ \E d \in HardwareInputs, m \in MessageInputs : HandleMidiMessage(d, m[1], m[2], m[3])
  \/ \E i \in 1..MaxStorageOps : StorageStep(i)

SpecMidi == InitMidi /\ [][NextMidi]_vars

\* The restore calls with connect, disconnect and the storage operations.
NextRestore ==
  \/ \E granted \in BOOLEAN : RequestMidiPermission(TRUE, granted)
  \/ \E d \in DeviceInputs : ConnectToDevice(d)
  \/ \E i \in 1..MaxPendingConnects : ConnectReads(i)
  \/ \E i \in 1..MaxPendingConnects : ConnectContinues(i)
  \/ \E a, b \in BOOLEAN : Disconnect(a, b)
  \/ AutoRestoreAfterPermissionGrant
  \/ RestoreMidiState
  \/ RestoreReadsPermission
  \/ RestoreReadsLastActive
  \/ RestoreReadsConfiguration
  \/ \E granted \in BOOLEAN : RestorePermissionResolves(granted)
  \/ \E i \in 1..MaxStorageOps : StorageStep(i)

SpecRestore == InitMidi /\ [][NextRestore]_vars

\* Status bytes of the messages dispatched: note on, note off, control change,
\* pitch bend (all on channel 1) and program change; with data1 60 or 7.
DispatchStatuses == {144, 128, 176, 224, 192}
DispatchData1 == {60, 7}

\* The engine after permission was granted, device 1 connected, and a note on
\* (note 60) and a control change (CC 7) each learned and linked to a toggle and
\* to a parameter, the storage operations having completed.
LinkedController ==
  LET learn(c, status, data1, targetId) ==
        requestMidiLink(handleMidiMessage(setLearning(c, TRUE), status, data1, 100),
                        targetId)
      c0 == [ midiAccess |-> FALSE, hasPermission |-> FALSE, availableDevices |-> {},
              isConnected |-> FALSE, connectedDeviceId |-> NoDevice,
              isLearning |-> FALSE, isLinked |-> FALSE, lastActivity |-> NoActivity,
              midiMappings |-> EmptyMap, listening |-> {}, storageOps |-> << >>,
              events |-> << >> ]
      c1 == requestMidiPermission(c0, FALSE, TRUE)
      c2 == connectToDeviceFinish(connectToDeviceStart(c1, 1).c, 1, FALSE, << >>)
      c3 == learn(c2, 144, 60, <<"effect", "toggle", "distortion">>)
      c4 == learn(c3, 144, 60, <<"effect", "parameter", "reverb", "mix">>)
      c5 == learn(c4, 176, 7, <<"effect", "toggle", "reverb">>)
      c6 == learn(c5, 176, 7, <<"effect", "parameter", "distortion", "amount">>)
  IN  [c6 EXCEPT !.storageOps = << >>, !.events = << >>]

\* The value dispatch is exercised on an engine that is connected and linked.
InitDispatch ==
  /\ AudioConstructed({}, EmptyMap)
  /\ ManagerConstructed(TRUE)
  /\ PopupConstructed
  /\ midiAccess = LinkedController.midiAccess
  /\ hasPermission = LinkedController.hasPermission
  /\ availableDevices = LinkedController.availableDevices
  /\ isConnected = LinkedController.isConnected
  /\ connectedDeviceId = LinkedController.connectedDeviceId
  /\ isLearning = LinkedController.isLearning
  /\ isLinked = LinkedController.isLinked
  /\ lastActivity = LinkedController.lastActivity
  /\ midiMappings = LinkedController.midiMappings
  /\ listening = LinkedController.listening
  /\ pendingConnects = << >>
  /\ restoreCall = NoRestoreCall
  /\ storageOps = << >>
  /\ devicesStore =
       (1 :> [i \in 1..4 |->
                StoredMapping((LinkedController.midiMappings[<<"note", 1, 60>>]
                               \o LinkedController.midiMappings[<<"control", 1, 7>>])[i])])
  /\ lastActiveStore = 1
  /\ permissionStore = "unset"
  /\ storageLimit = MaxStorageOps
  /\ midiEvents = << >>
  /\ midiRet = NoMidiRet

\* Messages with every data byte value arrive, learning being switched on or off.
NextDispatch ==
  \/ \E d \in HardwareInputs, status \in DispatchStatuses, data1 \in DispatchData1,
       data2 \in 0..127 : HandleMidiMessage(d, status, data1, data2)
  \/ \E enabled \in BOOLEAN : SetLearning(enabled)

SpecDispatch == InitDispatch /\ [][NextDispatch]_vars

\* The page: a device is connected, controls are learned and linked, and the
\* messages of the device act on the chain manager.
LearnMessages == { <<144, 60, 100>>, <<176, 7, 30>> }

LearnTargets == { <<"effect", "toggle", "distortion">> }

InitLearn ==
  /\ AudioConstructed({1}, EmptyMap)
  /\ MidiConstructed(NothingStored)
  /\ ManagerConstructed(TRUE)
  /\ PopupConstructed

NextLearn ==
  \/ RequestMidiPermission(FALSE, TRUE)
  \/ ConnectToDevice(1)
  \/ \E i \in 1..MaxPendingConnects : ConnectReads(i)
  \/ \E i \in 1..MaxPendingConnects : ConnectContinues(i)
  \/ \E enabled \in BOOLEAN : SetLearning(enabled)
  \/ \E t \in LearnTargets : RequestMidiLink(t)
  \/ \E d \in HardwareInputs, m \in LearnMessages : OnMidiMessage(d, m[1], m[2], m[3], {})
  \/ \E i \in 1..MaxStorageOps : StorageStep(i)

SpecLearn == InitLearn /\ [][NextLearn]_vars

\* Links are made and removed on the first connection to a device while the
\* storage operations they start overlap.
RaceTargets == { <<"effect", "toggle", "distortion">>,
                 <<"effect", "parameter", "reverb", "mix">> }

InitRace ==
  /\ AudioConstructed({}, EmptyMap)
  /\ MidiConstructedWith(NothingStored, MaxRacingOps)
  /\ ManagerConstructed(TRUE)
  /\ PopupConstructed

NextRace ==
  \/ RequestMidiPermission(FALSE, TRUE)
  \/ ~isConnected /\ ConnectToDevice(1)
  \/ \E i \in 1..MaxPendingConnects : ConnectReads(i)
  \/ \E i \in 1..MaxPendingConnects : ConnectContinues(i)
  \/ SetLearning(TRUE)
  \/ HandleMidiMessage(1, 144, 60, 100)
  \/ \E t \in RaceTargets : RequestMidiLink(t)
  \/ RemoveSpecificMapping("note", 1, 60)
  \/ \E i \in 1..MaxRacingOps : StorageStep(i)

SpecRace == InitRace /\ [][NextRace]_vars

\* Controls of both kinds, on the first and on the last channel, with the
\* lowest and the highest data byte, are learned and linked.
LinkStatuses == {144, 159, 128, 176, 224, 239, 192}
LinkData1 == {0, 127}

NextLink ==
  \/ RequestMidiPermission(FALSE, TRUE)
  \/ ~isConnected /\ ConnectToDevice(1)
  \/ \E i \in 1..MaxPendingConnects : ConnectReads(i)
  \/ \E i \in 1..MaxPendingConnects : ConnectContinues(i)
  \/ \E enabled \in BOOLEAN : SetLearning(enabled)
  \/ \E status \in LinkStatuses, data1 \in LinkData1 : HandleMidiMessage(1, status, data1, 100)
  \/ \E t \in TargetInputs :
       MappingCount(midiMappings) < MaxLinks /\ RequestMidiLink(t)
  \/ \E i \in 1..MaxStorageOps : StorageStep(i)

SpecLink == InitLearn /\ [][NextLink]_vars

\* The reverb's room size is set to every value of its range.
RoomSizes == 0..EFFECT_DEFINITIONS.reverb.roomSize.max

NextRoom ==
  \/ EnableEffect("reverb", {})
  \/ InitializeCompletes
  \/ \E v \in RoomSizes : SetParameter("reverb", "roomSize", Num(v))

SpecRoom == InitAudio /\ [][NextRoom]_vars

\* The page from its load on: the automatic restore, the gestures of the user
\* and the storage and browser answers the restore waits for. What resumes
\* when restoreMidiState returns runs before anything else.
InitGesture ==
  /\ AudioConstructed({}, EmptyMap)
  /\ \E stored \in StoredMidiChoices : MidiConstructedWith(stored, MaxRacingOps)
  /\ \E loading \in BOOLEAN : ManagerConstructed(loading)
  /\ PopupConstructed

NoResumeDue == \A i \in DOMAIN restoreAttempts : ~ResumeDue(i)

NextGesture ==
  \/ NoResumeDue /\ DomContentLoaded
  \/ \E t \in GestureTypes : NoResumeDue /\ UserGesture(t)
  \/ \E i \in 1..MaxAttempts : NoResumeDue /\ AttemptDelayEnds(i)
  \/ \E i \in 1..MaxAttempts : AttemptResumes(i)
  \/ \E i \in 1..MaxAttempts : NoResumeDue /\ AttemptReadsPermission(i)
  \/ NoResumeDue /\ RestoreReadsPermission
  \/ NoResumeDue /\ RestoreReadsLastActive
  \/ NoResumeDue /\ RestoreReadsConfiguration
  \/ \E granted \in BOOLEAN : NoResumeDue /\ RestorePermissionResolves(granted)
  \/ \E i \in 1..MaxPendingConnects : NoResumeDue /\ ConnectReads(i)
  \/ \E i \in 1..MaxPendingConnects : NoResumeDue /\ ConnectContinues(i)
  \/ \E i \in 1..MaxStorageOps : NoResumeDue /\ StorageStep(i)

SpecGesture == InitGesture /\ [][NextGesture]_vars

\* The popup's store: it initializes, its setters are called and their
\* deliveries to the content script succeed or fail.
NextPopup ==
  \/ PopupInitialize
  \/ PopupLoadResolves
  \/ \E answered \in BOOLEAN : PopupSyncResolves(answered)
  \/ \E s \in PopupSetInputs : PopupSetParameter(s[1], s[2], s[3])
  \/ \E success \in BOOLEAN : PopupSendResolves(success)
  \/ PopupWriteCompletes

SpecPopup == InitAudio /\ [][NextPopup]_vars

\* setParameter calls whose values differ from what storage may hold.
OverlayInputs ==
  { <<"distortion", "amount", Num(40)>>,
    <<"reverb", "roomSize", Num(20)>>,
    <<"reverb", "mix", Num(101)>> }

\* The store while its initialize() awaits the storage read and after:
\* setters are called, their writes complete, the read resolves.
NextOverlay ==
  \/ \E inp \in OverlayInputs : SetParameter(inp[1], inp[2], inp[3])
  \/ ParamWriteCompletes
  \/ InitializeCompletes
  \/ \E f \in availableEffects : EnableEffect(f, {})

SpecOverlay == InitAudio /\ [][NextOverlay]_vars

\* Target ids passed to requestMidiLink, split at '-': the two forms the popup
\* sends, and ids of other forms.
LinkTargets ==
  { <<"effect", "toggle", "distortion">>,
    <<"effect", "parameter", "reverb", "mix">>,
    <<"effect", "parameter", "reverb">>,
    <<"effect", "toggle", "distortion", "amount">>,
    <<"volume", "slider", "master">>,
    <<"effect", "toggle", "">>,
    <<"effect", "toggle">> }

\* Learning and linking with target ids of every form.
NextTarget ==
  \/ RequestMidiPermission(FALSE, TRUE)
  \/ ~isConnected /\ ConnectToDevice(1)
  \/ \E i \in 1..MaxPendingConnects : ConnectReads(i)
  \/ \E i \in 1..MaxPendingConnects : ConnectContinues(i)
  \/ \E enabled \in BOOLEAN : SetLearning(enabled)
  \/ \E m \in MessageInputs : HandleMidiMessage(1, m[1], m[2], m[3])
  \/ \E t \in LinkTargets : MappingCount(midiMappings) < MaxLinks /\ RequestMidiLink(t)
  \/ \E i \in 1..MaxStorageOps : StorageStep(i)

SpecTarget == InitLearn /\ [][NextTarget]_vars

\* The chain manager alone: effects are toggled, elements appear, factories may fail.
NextChain ==
  \/ \E f \in EffectInputs, b \in BrokenChoices : EnableEffect(f, b)
  \/ \E f \in EffectInputs, b \in BrokenChoices : DisableEffect(f, b)
  \/ \E b \in BrokenChoices : HandleNewMediaElements(b)
  \/ \E e \in Elements : MediaElementAdded(e)

SpecChain == InitAudio /\ [][NextChain]_vars

\* The parameter store with the chain manager: no factory fails.
NextParams ==
  \/ \E f \in EffectInputs : EnableEffect(f, {})
  \/ \E f \in EffectInputs : DisableEffect(f, {})
  \/ HandleNewMediaElements({})
  \/ \E inp \in SetInputs : SetParameter(inp[1], inp[2], inp[3])
  \/ ParamWriteCompletes
  \/ InitializeCompletes
  \/ \E e \in Elements : MediaElementAdded(e)

SpecParams == InitAudio /\ [][NextParams]_vars

\* The parameter store alone: values are set while initialize() calls overlap.
NextStore ==
  \/ \E inp \in SetInputs : SetParameter(inp[1], inp[2], inp[3])
  \/ ParamWriteCompletes
  \/ Initialize
  \/ InitializeCompletes
  \/ \E l \in OtherListeners : AddParameterChangeListener(l)

SpecStore == InitAudio /\ [][NextStore]_vars

(***************************************************************************)
(* Properties of the audio chain.                                          *)
(***************************************************************************)
\* The nodes a signal entering at the given nodes can reach.
RECURSIVE ReachFrom(_, _)
ReachFrom(seen, frontier) ==
  IF frontier = {} THEN seen
  ELSE LET next == { c[2] : c \in { d \in connections : d[1] \in frontier } } \ seen
       IN  ReachFrom(seen \cup next, next)

Downstream(e) == ReachFrom({Source(e)}, {Source(e)})

\* The stage of the chain a node belongs to: the source, an effect, the destination.
Stage(node) ==
  CASE node[1] = "waveshaper" -> "distortion"
    [] node[1] \in {"inputSplitter", "dryGain", "convolver", "wetGain", "outputMixer"}
         -> "reverb"
    [] node[1] \in {"highPass", "lowPass"} -> "filter"
    [] OTHER -> node[1]

\* The stage-to-stage hops a signal of element e can take.
StageHops(e) ==
  { <<Stage(c[1]), Stage(c[2])>> :
      c \in { d \in connections : d[1] \in Downstream(e) /\ Stage(d[1]) # Stage(d[2]) } }

\* The enabled effects in the order distortion, reverb, filter.
EnabledInPriority ==
  SelectSeq(<<"distortion", "reverb", "filter">>, LAMBDA f : f \in enabledEffects)

\* The hops of the single path source, enabled effects in priority, destination.
PriorityPathHops ==
  LET path == <<"source">> \o EnabledInPriority \o <<"destination">>
  IN  { <<path[i], path[i + 1]>> : i \in 1..(Len(path) - 1) }

\* C1: when every factory of the current build succeeded, each wired media
\* source has exactly one path to the destination, through nodes of its own
\* chain only, and the path visits exactly the enabled effects in the order
\* distortion, reverb, filter.
C1_OnePathInPriorityOrder ==
  ~factoryFailed =>
    \A i \in DOMAIN sourceNodes :
      /\ StageHops(sourceNodes[i]) = PriorityPathHops
      /\ \A n \in Downstream(sourceNodes[i]) : n[2] \in {sourceNodes[i], 0}

\* C1 witness: the last of the three effects has just been enabled and every
\* element of the page is wired through all of them.
C1_Witness ==
  /\ enabledEffects = availableEffects
  /\ Len(sourceNodes) = MaxElements
  /\ ~factoryFailed
  /\ audioRet = Ret("enableEffect", TRUE)

\* C10: every connection of the audio graph lies on the current chain of some
\* wired media element: none of an earlier topology remains.
C10_NoPreviousTopology ==
  \A c \in connections : \E i \in DOMAIN sourceNodes : c[1] \in Downstream(sourceNodes[i])

(***************************************************************************)
(* Properties of the parameter store.                                      *)
(***************************************************************************)
\* A setParameter call that names an unknown effect or parameter, or whose value
\* is outside [min, max] or not finite.
Rejectable(effectName, parameterName, value) ==
  \/ effectName \notin {"distortion", "reverb", "filter"}
  \/ parameterName \notin DOMAIN EFFECT_DEFINITIONS[effectName]
  \/ value.kind # "num"
  \/ value.n < EFFECT_DEFINITIONS[effectName][parameterName].min
  \/ value.n > EFFECT_DEFINITIONS[effectName][parameterName].max

\* C3: a setParameter call with an unknown effect, an unknown parameter, a value
\* outside [min, max] or a non-finite value returns false, changes no stored
\* value, calls no listener (no node setting changes) and starts no write.
C3_RejectedSetParameter ==
  [][ \A inp \in SetInputs :
        (Rejectable(inp[1], inp[2], inp[3]) /\ SetParameter(inp[1], inp[2], inp[3]))
          => /\ audioRet' = Ret("setParameter", FALSE)
             /\ UNCHANGED << parameters, nodeParams, pendingParamWrites, paramStorage >>
    ]_vars

\* C3 witness: a call was rejected while the processor's listener was registered
\* and a distortion node existed.
C3_Witness ==
  /\ audioRet = Ret("setParameter", FALSE)
  /\ listenerRegistered
  /\ effectNodes["distortion"] # NoNode

\* C2: an effect that was disabled and is enabled again, with no parameter
\* change in between, gets on each element a node with exactly the settings the
\* element's previous node had.
C2_ReenableKeepsSettings ==
  [][ \A f \in availableEffects :
        (previousNode.effect = f /\ f \notin enabledEffects /\ f \in enabledEffects')
          => \A k \in DOMAIN previousNode.settings :
               k \in DOMAIN nodeParams' => nodeParams'[k] = previousNode.settings[k]
    ]_vars

(***************************************************************************)
(* Properties of the MIDI engine.                                          *)
(***************************************************************************)
\* The positions <<key, index>> at which the table holds a mapping.
Positions(table) ==
  UNION { { <<k, i>> : i \in 1..Len(table[k]) } : k \in DOMAIN table }

\* The MIDI key an activity addresses.
KeyOfActivity(activity) ==
  <<activity.type, (activity.status % 16) + 1, activity.data1>>

\* The table holds, under the key of the activity, a mapping for the target id.
Linked(table, targetId, activity) ==
  \E pos \in Positions(table) :
    pos[1] = KeyOfActivity(activity) /\ table[pos[1]][pos[2]].id = targetId

\* No key of the table holds two mappings for one target id.
OneMappingPerTarget ==
  \A p, q \in Positions(midiMappings) :
    (p[1] = q[1] /\ midiMappings[p[1]][p[2]].id = midiMappings[q[1]][q[2]].id) => p = q

\* C4: requestLink called again with the same last activity and the same target
\* id creates no second mapping: the table stays as it is, no mapping-created
\* callback fires and no storage operation is started; a key never holds two
\* mappings for one target.
C4_RequestLinkIdempotent ==
  /\ []OneMappingPerTarget
  /\ [][ \A t \in TargetInputs :
           (/\ lastActivity # NoActivity
            /\ midiRet'.op = "requestMidiLink"
            /\ Linked(midiMappings, t, lastActivity)
            /\ RequestMidiLink(t))
             => /\ midiMappings' = midiMappings
                /\ \A i \in DOMAIN midiEvents' : midiEvents'[i].ev # "onMidiMappingCreated"
                /\ storageOps' = storageOps
       ]_vars

\* C4 witness: requestLink has just returned for a target that is already linked
\* to the last activity, which is still the snapshot.
C4_Witness ==
  /\ midiRet = MidiRet("requestMidiLink", "none", <<"effect", "toggle", "distortion">>)
  /\ lastActivity # NoActivity
  /\ Linked(midiMappings, <<"effect", "toggle", "distortion">>, lastActivity)
  /\ Len(midiMappings[KeyOfActivity(lastActivity)]) = 2

\* The target ids a message triggered, in order.
TriggeredIds(events) ==
  LET fired == SelectSeq(events, LAMBDA e : e.ev = "onMidiMappingTriggered")
  IN  [i \in 1..Len(fired) |-> fired[i].id]

\* The target ids of a sequence of mappings, in order.
IdsOf(mappingArray) == [i \in 1..Len(mappingArray) |-> mappingArray[i].id]

\* C6: removeSpecificMapping removes the first mapping of the key and returns
\* true, the others stay under the key in order and every other key is left
\* alone; the key goes with its last mapping; on a key without mapping it returns
\* false and changes nothing.  A note on with velocity > 0 that arrives for a key
\* triggers every mapping the key holds.
C6_RemoveFirstOfKey ==
  /\ [][ \A k \in KeyInputs :
           (midiRet'.op = "removeSpecificMapping" /\ RemoveSpecificMapping(k[1], k[2], k[3])) =>
             LET before == IF k \in DOMAIN midiMappings THEN midiMappings[k] ELSE << >>
             IN  IF before = << >>
                 THEN /\ midiRet'.result = "false"
                      /\ UNCHANGED << midiMappings, isLinked, listening, storageOps,
                                      isConnected, isLearning, lastActivity >>
                 ELSE /\ midiRet'.result = "true"
                      /\ Len(before) = 1 => k \notin DOMAIN midiMappings'
                      /\ Len(before) > 1 =>
                           /\ k \in DOMAIN midiMappings'
                           /\ midiMappings'[k] = Tail(before)
                      /\ \A other \in DOMAIN midiMappings \ {k} :
                           /\ other \in DOMAIN midiMappings'
                           /\ midiMappings'[other] = midiMappings[other]
       ]_vars
  /\ [][ \A d \in HardwareInputs, m \in MessageInputs :
           (/\ midiRet'.op = "handleMidiMessage"
            /\ (m[1] \div 16) * 16 = 144
            /\ m[3] > 0
            /\ <<"note", (m[1] % 16) + 1, m[2]>> \in DOMAIN midiMappings
            /\ HandleMidiMessage(d, m[1], m[2], m[3]))
             => TriggeredIds(midiEvents') =
                  IdsOf(midiMappings[<<"note", (m[1] % 16) + 1, m[2]>>])
       ]_vars

\* C6 witness: a removal on the note key returned true and one mapping is left
\* under the key.
C6_Witness ==
  /\ midiRet = MidiRet("removeSpecificMapping", "true", <<"note", 1, 60>>)
  /\ <<"note", 1, 60>> \in DOMAIN midiMappings
  /\ Len(midiMappings[<<"note", 1, 60>>]) = 1

\* C7: isLinked is true exactly when the table holds at least one mapping.
C7_LinkedIffMapped ==
  isLinked <=> (\E k \in DOMAIN midiMappings : Len(midiMappings[k]) > 0)

\* C7 witness: a connect has restored the stored mappings and the engine is linked.
C7_Witness ==
  /\ midiRet = MidiRet("connectToDevice", "resolved", << >>)
  /\ isLinked
  /\ Positions(midiMappings) # {}

\* C8: disconnect leaves no hardware listener attached, isConnected, isLearning
\* and isLinked false, no last activity and an empty table; with the flags
\* (false, false) it starts no storage operation; hasPermission and the scanned
\* device list stay as they are.
C8_DisconnectEffects ==
  [][ \A a, b \in BOOLEAN :
        (midiRet'.op = "disconnect" /\ Disconnect(a, b)) =>
          /\ listening' = {}
          /\ ~isConnected' /\ ~isLearning' /\ ~isLinked'
          /\ lastActivity' = NoActivity
          /\ DOMAIN midiMappings' = {}
          /\ (~a /\ ~b) => storageOps' = storageOps
          /\ UNCHANGED << hasPermission, availableDevices >>
    ]_vars

\* How many times the table holds a mapping with the identity of the stored one:
\* target id, MIDI type, channel, note or CC.
Occurrences(table, stored) ==
  Cardinality({ pos \in Positions(table) :
                  LET m == table[pos[1]][pos[2]]
                  IN  /\ m.id = stored.id
                      /\ m.midiType = stored.midiType
                      /\ m.midiChannel = stored.midiChannel
                      /\ m.midiNote = stored.midiNote
                      /\ m.midiCC = stored.midiCC })

\* C9: when connectToDevice resumes with the stored configuration of the device,
\* the table then holds each stored mapping exactly once, also when the restore
\* call that awaited it restores the same list once more; that second restore
\* leaves the table as the connect left it.
C9_RestoreIdempotent ==
  [][ \A i \in 1..MaxPendingConnects :
        (/\ i \in DOMAIN pendingConnects
         /\ pendingConnects[i].exists
         /\ ConnectContinues(i)) =>
          LET p == pendingConnects[i] IN
          /\ \A j \in DOMAIN p.mappings : Occurrences(midiMappings', p.mappings[j]) = 1
          /\ (p.owner = "restore" /\ restoreCall.mappings = p.mappings) =>
               midiMappings' =
                 restoreMidiMappings(Controller, p.mappings).midiMappings
    ]_vars

\* C9 witness: autoRestoreAfterPermissionGrant has connected to the stored device
\* and restored its two mappings a second time; each is in the table once.
C9_Witness ==
  /\ midiRet = MidiRet("autoRestoreAfterPermissionGrant", "true", << >>)
  /\ isConnected
  /\ <<"note", 1, 60>> \in DOMAIN midiMappings
  /\ Len(midiMappings[<<"note", 1, 60>>]) = 2

\* round(data2 / 127 * 100): the integer nearest to 100 * data2 / 127.
NearestPercent(data2) ==
  CHOOSE r \in 0..100 : 2 * (127 * r - 100 * data2) <= 127
                        /\ 2 * (100 * data2 - 127 * r) < 127

\* The reference value of a dispatch: the mapping type is the second part of
\* the target id, the key type follows from the status byte.
ReferenceValue(targetId, status, data2) ==
  LET onNote == (status \div 16) * 16 \in {128, 144} IN
  IF targetId[2] = "toggle"
  THEN IF onNote
       THEN (IF data2 < 64 THEN 0 ELSE 1)
       ELSE (IF NearestPercent(data2) < 50 THEN 0 ELSE 1)
  ELSE NearestPercent(data2)

\* C5: every value handed to the mapping-triggered callback is the reference
\* value for the mapping's type, the key's type and data2.
C5_DispatchedValue ==
  midiRet.op = "handleMidiMessage" =>
    \A i \in DOMAIN midiEvents :
      midiEvents[i].ev = "onMidiMappingTriggered" =>
        midiEvents[i].value = ReferenceValue(midiEvents[i].id, midiRet.key[1], midiRet.key[3])

\* C5 witness: control change 7 with value 63 has triggered the toggle mapping
\* with 1 and the parameter mapping with 50.
C5_Witness ==
  /\ midiRet = MidiRet("handleMidiMessage", "none", <<176, 7, 63>>)
  /\ midiEvents = << Event("onMidiMappingTriggered", <<"effect", "toggle", "reverb">>, 1),
                     Event("onMidiMappingTriggered",
                           <<"effect", "parameter", "distortion", "amount">>, 50) >>

(***************************************************************************)
(* Return values and frame of the toggles.                                 *)
(***************************************************************************)
\* The enabled set and the audio graph.
toggleFrame == << enabledEffects, sourceNodes, effectNodes, nodeParams, connections >>

\* C11: enableEffect returns false and changes neither the enabled set nor the
\* audio graph when the name is unknown or already enabled, and returns true
\* with the name added otherwise; disableEffect returns false and changes
\* nothing when the name is not enabled, and returns true with the name removed
\* otherwise.
C11_ToggleReturnAndFrame ==
  [][ \A f \in EffectInputs, b \in BrokenChoices :
        /\ (audioRet'.op = "enableEffect" /\ EnableEffect(f, b)) =>
             IF f \notin availableEffects \/ f \in enabledEffects
             THEN audioRet'.result = FALSE /\ UNCHANGED toggleFrame
             ELSE audioRet'.result = TRUE /\ enabledEffects' = enabledEffects \cup {f}
        /\ (audioRet'.op = "disableEffect" /\ DisableEffect(f, b)) =>
             IF f \notin enabledEffects
             THEN audioRet'.result = FALSE /\ UNCHANGED toggleFrame
             ELSE audioRet'.result = TRUE /\ enabledEffects' = enabledEffects \ {f}
    ]_vars

\* enableEffect has just refused a name while an effect is enabled and wired.
C11_Witness ==
  /\ audioRet = Ret("enableEffect", FALSE)
  /\ "distortion" \in enabledEffects
  /\ Len(sourceNodes) > 0
  /\ connections # {}

(***************************************************************************)
(* The two-effect scenario.                                                *)
(***************************************************************************)
\* The effects that have an entry in the live effect-node map.
LiveNodes(fx) == { f \in DOMAIN fx : fx[f] # NoNode }

\* The nodes a node is connected to.
Outputs(conns, node) == { c[2] : c \in { x \in conns : x[1] = node } }

\* C12: with a media element wired and no factory failing, enabling reverb
\* while distortion is the only enabled effect leaves exactly 2 nodes in the
\* effect-node map; disabling distortion then leaves exactly 1 node (reverb),
\* every source connected to reverb's input tap and nothing else, and reverb's
\* output tap connected to the destination.
C12_TwoThenOneLiveNode ==
  [][ \A b \in BrokenChoices :
        /\ ( /\ enabledEffects = {"distortion"}
             /\ EnableEffect("reverb", b)
             /\ ~factoryFailed' /\ Len(sourceNodes') > 0 )
           => Cardinality(LiveNodes(effectNodes')) = 2
        /\ ( /\ enabledEffects = {"distortion", "reverb"}
             /\ DisableEffect("distortion", b)
             /\ ~factoryFailed' /\ Len(sourceNodes') > 0 )
           => /\ LiveNodes(effectNodes') = {"reverb"}
              /\ \A i \in DOMAIN sourceNodes' :
                   LET e == sourceNodes'[i] IN
                   /\ Outputs(connections', <<"source", e>>) = { <<"inputSplitter", e>> }
                   /\ <<"destination", 0>> \in Outputs(connections', <<"outputMixer", e>>)
    ]_vars

\* Distortion has just been disabled with reverb still enabled and a media
\* element wired.
C12_Witness ==
  /\ audioRet = Ret("disableEffect", TRUE)
  /\ previousNode.effect = "distortion"
  /\ enabledEffects = {"reverb"}
  /\ Len(sourceNodes) > 0
  /\ ~factoryFailed

(***************************************************************************)
(* Learning a control and triggering an effect by it.                      *)
(***************************************************************************)
\* The table holds a mapping of the target under the key.
MappedUnder(table, midiKey, targetId) ==
  \E i \in 1..Len(MappingsAt(table, midiKey)) : MappingsAt(table, midiKey)[i].id = targetId

\* C13: with a device connected and learning on, a Note-On (channel 1, note 60,
\* velocity 100) that finds no mapping becomes the last activity and triggers
\* nothing; requestMidiLink("effect-toggle-distortion") then creates a mapping
\* with midiType note, midiChannel 1, midiNote 60 under the note's key; the same
\* Note-On received while that mapping exists is dispatched to it with toggle
\* value 1 and distortion is enabled afterwards.
C13_LearnThenTrigger ==
  [][ LET target == <<"effect", "toggle", "distortion">>
          noteKey == <<"note", 1, 60>>
      IN
      /\ ( /\ midiRet'.op = "handleMidiMessage"
           /\ isLearning /\ midiMappings = EmptyMap
           /\ \E d \in HardwareInputs : OnMidiMessage(d, 144, 60, 100, {}) )
         => /\ lastActivity' = Activity("note", 144, 60)
            /\ \A i \in 1..Len(midiEvents') : midiEvents'[i].ev # "onMidiMappingTriggered"
            /\ UNCHANGED << enabledEffects, connections, midiMappings >>
      /\ ( /\ midiRet'.op = "requestMidiLink"
           /\ lastActivity = Activity("note", 144, 60)
           /\ ~MappedUnder(midiMappings, noteKey, target)
           /\ RequestMidiLink(target) )
         => \E i \in 1..Len(MappingsAt(midiMappings', noteKey)) :
              LET m == midiMappings'[noteKey][i] IN
              /\ m.id = target /\ m.type = EffectToggle /\ m.effect = "distortion"
              /\ m.midiType = "note" /\ m.midiChannel = 1 /\ m.midiNote = 60
      /\ ( /\ midiRet'.op = "handleMidiMessage"
           /\ MappedUnder(midiMappings, noteKey, target)
           /\ \E d \in HardwareInputs : OnMidiMessage(d, 144, 60, 100, {}) )
         => /\ \E i \in 1..Len(midiEvents') :
                 midiEvents'[i] = Event("onMidiMappingTriggered", target, 1)
            /\ "distortion" \in enabledEffects'
    ]_vars

\* The learned Note-On has just enabled distortion on the wired media element,
\* with learning switched off by the link.
C13_Witness ==
  /\ midiRet = MidiRet("handleMidiMessage", "none", <<144, 60, 100>>)
  /\ audioRet = Ret("enableEffect", TRUE)
  /\ "distortion" \in enabledEffects
  /\ Len(sourceNodes) = 1
  /\ ~isLearning /\ isLinked
  /\ MappedUnder(midiMappings, <<"note", 1, 60>>, <<"effect", "toggle", "distortion">>)

(***************************************************************************)
(* Note-Off and learning.                                                  *)
(***************************************************************************)
\* C14: a Note-Off and a Note-On with velocity 0 fire no mapping-triggered
\* callback, whatever the table holds; a Note-On with velocity > 0 triggers
\* every mapping of its note key.
C14_NoteOffNeverTriggers ==
  midiRet.op = "handleMidiMessage" =>
    LET status == midiRet.key[1]
        data1  == midiRet.key[2]
        data2  == midiRet.key[3]
        type   == status - (status % 16)
        noteKey == <<"note", (status % 16) + 1, data1>>
    IN  /\ (type = 128 \/ (type = 144 /\ data2 = 0)) => TriggeredIds(midiEvents) = << >>
        /\ (type = 144 /\ data2 > 0) =>
             TriggeredIds(midiEvents) = IdsOf(MappingsAt(midiMappings, noteKey))

\* A Note-On with velocity 0 has arrived for a note that holds two mappings.
C14_Witness ==
  /\ midiRet = MidiRet("handleMidiMessage", "none", <<144, 60, 0>>)
  /\ Len(MappingsAt(midiMappings, <<"note", 1, 60>>)) = 2
  /\ TriggeredIds(midiEvents) = << >>

\* The activity a message decodes to, read from the bytes: none for a program
\* change, a note for Note-On and Note-Off, a control for control change and
\* pitch bend.
DecodedActivity(status, data1) ==
  LET type == status - (status % 16) IN
  IF type = 192 THEN NoActivity
  ELSE [type |-> IF type \in {128, 144} THEN "note" ELSE "control",
        status |-> status, data1 |-> data1]

\* The callbacks of a step that are activity-observed callbacks.
ActivityCalls(events) == SelectSeq(events, LAMBDA e : e.ev = "onMidiActivity")

\* C15: while learning is active every message that decodes to an activity
\* becomes the last activity and fires the activity-observed callback once,
\* whether or not a mapping matches it, and a Note-On with velocity > 0 still
\* triggers the mappings of its key; while learning is off no message changes
\* the last activity or fires the activity-observed callback.
C15_LearningRecordsActivity ==
  [][ LET status == midiRet'.key[1]
          data1  == midiRet'.key[2]
          data2  == midiRet'.key[3]
      IN  midiRet'.op = "handleMidiMessage"
          => IF isLearning
             THEN IF DecodedActivity(status, data1) = NoActivity
                  THEN lastActivity' = lastActivity /\ midiEvents' = << >>
                  ELSE /\ lastActivity' = DecodedActivity(status, data1)
                       /\ Len(ActivityCalls(midiEvents')) = 1
                       /\ (status - (status % 16) = 144 /\ data2 > 0) =>
                            TriggeredIds(midiEvents') =
                              IdsOf(MappingsAt(midiMappings, <<"note", (status % 16) + 1, data1>>))
             ELSE /\ lastActivity' = lastActivity
                  /\ ActivityCalls(midiEvents') = << >>
    ]_vars

\* While learning, a Note-On that matches two mappings has triggered both and
\* has become the last activity.
C15_Witness ==
  /\ midiRet = MidiRet("handleMidiMessage", "none", <<144, 60, 100>>)
  /\ isLearning
  /\ lastActivity = Activity("note", 144, 60)
  /\ Len(TriggeredIds(midiEvents)) = 2
  /\ Len(ActivityCalls(midiEvents)) = 1

(***************************************************************************)
(* Attachment of the hardware listener.                                    *)
(***************************************************************************)
\* C16: whenever the message listener is attached to a hardware input,
\* isLearning or isLinked is true; in particular after setLearning(false) with
\* no mappings no listener is attached.
C16_ListenerOnlyWhenNeeded ==
  listening # {} => (isLearning \/ isLinked)

\* C17: whenever the engine is connected, no connect call is in flight and the
\* table holds a mapping, the message listener is attached to the connected
\* device's input, with learning on or off.
C17_LinkedKeepsListener ==
  (isConnected /\ pendingConnects = << >> /\ Positions(midiMappings) # {})
    => connectedDeviceId \in listening

(***************************************************************************)
(* Durable storage.                                                        *)
(***************************************************************************)
\* The storage operations a step has started, in order.
Started(before, after) == SubSeq(after, Len(before) + 1, Len(after))

\* The names of a sequence of storage operations.
OpsOf(ops) == [i \in 1..Len(ops) |-> ops[i].op]

\* C18: disconnect(true, false) starts the clearing of the last-active device
\* only and disconnect(false, true) the clearing of the device configurations
\* only; the clearing of the last-active device leaves the stored device
\* configurations as they are, and the clearing of the device configurations
\* leaves the stored last-active device as it is.
C18_FlagsIndependent ==
  [][ /\ \A a, b \in BOOLEAN :
           (midiRet'.op = "disconnect" /\ Disconnect(a, b)) =>
             OpsOf(Started(storageOps, storageOps')) =
               (IF a THEN <<"clearLastActiveDevice">> ELSE << >>)
                 \o (IF b THEN <<"clearAllDeviceConfigurations">> ELSE << >>)
      /\ \A i \in DOMAIN storageOps :
           (midiRet'.op = "none" /\ StorageStep(i)) =>
             /\ storageOps[i].op = "clearLastActiveDevice" => devicesStore' = devicesStore
             /\ storageOps[i].op = "clearAllDeviceConfigurations" =>
                  lastActiveStore' = lastActiveStore
    ]_vars

\* The mappings of the in-memory table as they are stored.
StoredFormOfTable(table) ==
  { StoredMapping(table[pos[1]][pos[2]]) : pos \in Positions(table) }

\* The durable mapping list of a device; empty when it has no configuration.
DurableList(devices, device) ==
  IF device \in DOMAIN devices THEN devices[device] ELSE << >>

\* C19: while connected to a device, once the connect call and every storage
\* operation have completed, the durable mapping list of the device holds
\* exactly the mappings of the in-memory table.
C19_DurableMatchesMemory ==
  (isConnected /\ connectedDeviceId = 1 /\ pendingConnects = << >> /\ storageOps = << >>)
    => LET stored == DurableList(devicesStore, 1) IN
       /\ Range(stored) = StoredFormOfTable(midiMappings)
       /\ Len(stored) = Cardinality(Positions(midiMappings))

\* C20: a successful setParameter delivers its result before the persistence
\* write completes: the step in which the promise of the call resolves (and the
\* 'setParameter' response is sent) is not the completion of a storage write.
C20_ResultBeforeWrite ==
  [][(audioRet'.op = "setParameterResolved" /\ audioRet'.result)
       => /\ Len(pendingParamWrites') >= Len(pendingParamWrites)
          /\ paramStorage' = paramStorage]_vars

\* C21: initialize() has an effect only on its first call. The constructor has
\* made the first call, so every later call, even one made while the first
\* still awaits the storage read, reloads no defaults, starts no storage read
\* and changes no value.
C21_InitializeOnlyOnce ==
  [][audioRet'.op = "initialize"
       => /\ parameters' = parameters
          /\ initCalls' = initCalls
          /\ paramStorage' = paramStorage]_vars

\* C22: on a successful setParameter every registered change listener is
\* invoked exactly once with the event, also when another listener throws;
\* nothing a listener throws reaches the caller, and the value is updated and
\* the persistence write started all the same.
C22_EveryListenerOnce ==
  [][\A inp \in SetInputs :
       (/\ audioRet'.op = "setParameter"
        /\ isValidParameter(inp[1], inp[2], inp[3])
        /\ SetParameter(inp[1], inp[2], inp[3]))
       => /\ audioRet'.result
          /\ ~audioRet'.thrown
          /\ audioRet'.calls = parameterChangeListeners
          /\ parameters'[inp[1]][inp[2]] = inp[3].n
          /\ pendingParamWrites' = Append(pendingParamWrites, parameters')]_vars

\* C22 witness: a value was set while three listeners were registered, and
\* the one that throws was invoked before the two others.
C22_Witness ==
  /\ audioRet.op = "setParameter"
  /\ audioRet.result
  /\ Len(audioRet.calls) = Cardinality(OtherListeners) + 1
  /\ ListenerThrows(audioRet.calls[1])
  /\ pendingParamWrites # << >>

\* The hops of the single path source, the given effects in priority, destination.
PathHopsThrough(effects) ==
  LET path == <<"source">>
                \o SelectSeq(<<"distortion", "reverb", "filter">>, LAMBDA f : f \in effects)
                \o <<"destination">>
  IN  { <<path[i], path[i + 1]>> : i \in 1..(Len(path) - 1) }

\* The nodes a signal entering at the frontier reaches over the connections.
RECURSIVE ReachIn(_, _, _)
ReachIn(conns, seen, frontier) ==
  IF frontier = {} THEN seen
  ELSE LET next == { c[2] : c \in { d \in conns : d[1] \in frontier } } \ seen
       IN  ReachIn(conns, seen \cup next, next)

\* Every source of srcs has one path over conns: through the given effects in
\* priority order, over nodes of its own chain, ending at the destination.
ChainsRunThrough(conns, srcs, effects) ==
  \A i \in DOMAIN srcs :
    LET down == ReachIn(conns, {Source(srcs[i])}, {Source(srcs[i])})
        hops == { <<Stage(c[1]), Stage(c[2])>> :
                    c \in { d \in conns : d[1] \in down /\ Stage(d[1]) # Stage(d[2]) } }
    IN  /\ hops = PathHopsThrough(effects)
        /\ Destination \in down
        /\ \A n \in down : n[2] \in {srcs[i], 0}

\* C23: when the factory of one enabled effect returns null during a rebuild,
\* the rebuild still succeeds and the chain of every media source runs through
\* all other enabled effects in priority order and ends at the destination.
C23_FailedFactoryIsolated ==
  [][\A f \in EffectInputs, b \in BrokenChoices :
       /\ (audioRet'.op = "enableEffect" /\ audioRet'.result /\ EnableEffect(f, b))
            => ChainsRunThrough(connections', sourceNodes', enabledEffects' \ b)
       /\ (audioRet'.op = "disableEffect" /\ audioRet'.result /\ DisableEffect(f, b))
            => ChainsRunThrough(connections', sourceNodes', enabledEffects' \ b)]_vars

\* C23 witness: all three effects are enabled, a factory returned null in the
\* rebuild just made, and every element of the page is wired.
C23_Witness ==
  /\ audioRet = Ret("enableEffect", TRUE)
  /\ factoryFailed
  /\ enabledEffects = availableEffects
  /\ Len(sourceNodes) = MaxElements

\* The permission-changed callbacks among the events of a step.
PermissionChanges(events) == SelectSeq(events, LAMBDA e : e.ev = "onPermissionChange")

\* C24: only connectToDevice rejects, and it does so exactly when MIDI access
\* is missing or the device id is absent; requestMidiPermission,
\* restoreMidiState and autoRestoreAfterPermissionGrant always resolve, and
\* a denied permission request fires permission-changed(false) exactly once.
C24_OnlyConnectRejects ==
  [][/\ midiRet'.result = "rejected" => midiRet'.op = "connectToDevice"
     /\ \A d \in DeviceInputs :
          (midiRet'.op = "connectToDevice" /\ pendingConnects' # pendingConnects
             /\ ConnectToDevice(d))
            => midiRet'.result = "pending" /\ midiAccess /\ d \in HardwareInputs
     /\ \A d \in DeviceInputs :
          (midiRet'.op = "connectToDevice" /\ pendingConnects' = pendingConnects
             /\ midiRet'.result # "resolved" /\ ConnectToDevice(d))
            => midiRet'.result = "rejected" /\ (~midiAccess \/ d \notin HardwareInputs)
     /\ midiRet'.op \in {"requestMidiPermission", "restoreMidiState",
                          "autoRestoreAfterPermissionGrant"}
          => midiRet'.result \in {"true", "false"}
     /\ (midiRet'.op = "requestMidiPermission" /\ midiRet'.result = "false")
          => PermissionChanges(midiEvents') = << Event("onPermissionChange", << >>, 0) >>
     /\ (midiRet'.op = "restoreMidiState" /\ restoreCall.phase = "requestPermission"
           /\ ~hasPermission')
          => PermissionChanges(midiEvents') = << Event("onPermissionChange", << >>, 0) >>]_vars

\* C24 witness: restoreMidiState has returned false after the permission it
\* requested was denied, which fired permission-changed(false).
C24_Witness ==
  /\ midiRet = MidiRet("restoreMidiState", "false", << >>)
  /\ PermissionChanges(midiEvents) = << Event("onPermissionChange", << >>, 0) >>

\* C25: last call wins between connect and disconnect. When disconnect() was
\* called while the only connectToDevice call still awaited its storage read,
\* then once that call has finished as well the engine is disconnected, its
\* mapping table is empty and isLinked is false.
C25_DisconnectWinsOverPendingConnect ==
  [][(/\ midiRet.op = "disconnect"
      /\ Len(pendingConnects) = 1
      /\ midiRet'.op = "connectToDevice"
      /\ midiRet'.result = "resolved"
      /\ pendingConnects' = << >>)
       => /\ ~isConnected'
          /\ midiMappings' = EmptyMap
          /\ ~isLinked']_vars

\* The mappings a step has added to the table, each with its key.
AddedMappings(before, after) ==
  { <<pos[1], after[pos[1]][pos[2]]>> : pos \in
      { q \in Positions(after) :
          after[q[1]][q[2]] \notin Range(MappingsAt(before, q[1])) } }

\* C26: every mapping created by requestLink has exactly one of midiNote and
\* midiCC set, the one its midiType names, a midiChannel in 1..16, and lies in
\* the table under the key made of its own type, channel and note or CC.
C26_CreatedMappingWellFormed ==
  [][midiRet'.op = "requestMidiLink"
       => \A km \in AddedMappings(midiMappings, midiMappings') :
            LET m == km[2] IN
            /\ m.midiType \in {"note", "control"}
            /\ m.midiType = "note" => (m.midiNote # Undefined /\ m.midiCC = Undefined)
            /\ m.midiType = "control" => (m.midiCC # Undefined /\ m.midiNote = Undefined)
            /\ m.midiChannel \in 1..16
            /\ km[1] = << m.midiType, m.midiChannel,
                          IF m.midiType = "note" THEN m.midiNote ELSE m.midiCC >>]_vars

\* C26 witness: a pitch-bend message of channel 16 with data byte 0 was
\* linked, after a note of channel 1.
C26_Witness ==
  /\ midiRet.op = "requestMidiLink"
  /\ <<"control", 16, 0>> \in DOMAIN midiMappings
  /\ <<"note", 1, 127>> \in DOMAIN midiMappings

\* round((roomSize / 100) * (N - 1)): the integer nearest to it, halves up.
RoundIndex(roomSize, len) == (2 * roomSize * (len - 1) + 100) \div 200

\* C27: for every integer roomSize in 0..100 and a full bank of 20 impulse
\* responses, the reverb selects bank index round((roomSize/100)*(N-1)),
\* clamped to [0, N-1].
C27_RoomSizeSelectsRoundedIndex ==
  [][\A v \in RoomSizes :
       (/\ audioRet'.op = "setParameter"
        /\ audioRet'.notified
        /\ effectNodes["reverb"] # NoNode
        /\ SetParameter("reverb", "roomSize", Num(v)))
       => nodeParams'[<<effectNodes["reverb"], "reverb">>].buffer
            = Clamp(RoundIndex(v, ImpulseBankLength), 0, ImpulseBankLength - 1)]_vars

\* C29: handleNewMediaElements creates a source node and a chain only for
\* media elements not yet wired: what is wired keeps its source node and its
\* connections, no element ever has two source nodes, and without an audio
\* context the call does nothing.
C29_OnlyNewElementsWired ==
  [][\A b \in BrokenChoices :
       (audioRet' = audioRet /\ enabledEffects' = enabledEffects
          /\ pageElements' = pageElements /\ HandleNewMediaElements(b))
       => LET new == Range(sourceNodes') \ Range(sourceNodes) IN
          /\ SubSeq(sourceNodes', 1, Len(sourceNodes)) = sourceNodes
          /\ Range(sourceNodes') = Range(sourceNodes) \cup (IF audioContext THEN pageElements ELSE {})
          /\ Cardinality(Range(sourceNodes')) = Len(sourceNodes')
          /\ { c \in connections' : c[1][2] \notin new } = connections
          /\ \A e \in new : Destination \in ReachIn(connections', {Source(e)}, {Source(e)})
          /\ ~audioContext => UNCHANGED << sourceNodes, connections, effectNodes, nodeParams >>]_vars

\* C29 witness: element 2 was wired when the only enabled effect was switched
\* on, and element 1, which appeared later, has been wired since.
C29_Witness ==
  /\ sourceNodes = <<2, 1>>
  /\ Cardinality(enabledEffects) = 1
  /\ previousNode = NoPrevious
  /\ audioRet = Ret("enableEffect", TRUE)

\* C30: automatic restore is a one-shot fallback: attemptAutoRestore runs at
\* most once at load and at most once more on a user gesture, however the
\* attempts end and however many gestures follow, and no two attempts are in
\* progress at the same time.
C30_RestoreAttemptedAtMostTwice ==
  /\ attemptsRun.load <= 1
  /\ attemptsRun.gesture <= 1
  /\ Len(restoreAttempts) <= 1

\* C30 witness: the attempt at load and the attempt on a gesture have both
\* ended without restoring, the fallback is armed again, and no listener is
\* left on the document to use it.
C30_Witness ==
  /\ attemptsRun = [load |-> 1, gesture |-> 1]
  /\ restoreAttempts = << >>
  /\ autoRestoreOnUserGesture
  /\ ~autoRestoreAttempted
  /\ gestureListeners = {}

\* C31: when a valid popup setParameter cannot be delivered to the content
\* script, the call returns false and the popup store holds for that parameter
\* the value it held before the call.
C31_RevertsOnFailedDelivery ==
  [][ (/\ popupRet'.op = "setParameter"
       /\ popupSends' # popupSends
       /\ popupRet'.valid
       /\ ~popupRet'.delivered)
      => /\ popupRet'.result = FALSE
         /\ getParameter(popupParameters', popupRet'.effectName, popupRet'.parameterName)
              = popupRet'.before ]_vars

\* C32: whenever no store operation is in progress, the node the processor
\* holds for an enabled effect carries, for each parameter, the setting that
\* the store's current value gives; also when the effect was enabled or the
\* parameter set before initialize() had finished.
C32_LiveNodeMatchesStore ==
  (initCalls = 0 /\ pendingParamWrites = << >>)
    => \A f \in enabledEffects :
         effectNodes[f] # NoNode
           => nodeParams[<<effectNodes[f], f>>]
                = applyStoredParameters(f, CreateSettings(f), parameters)

\* C33: a value accepted by setParameter stays the stored value of its
\* parameter until the next accepted setParameter; the overlay of the
\* persisted values at the end of initialize() does not replace it.  Checked
\* from the accepted call until the next call returns.
C33_AcceptedValueStays ==
  (audioRet.op = "setParameter" /\ audioRet.set # << >>)
    => parameters[audioRet.set[1]][audioRet.set[2]] = audioRet.set[3]

\* C34: with two or more wired media elements and the effect enabled, an
\* accepted parameter update that reaches the processor applies the new value
\* to the effect's node in the chain of every wired element.
C34_EveryChainUpdated ==
  [][ (/\ audioRet'.op = "setParameter"
       /\ audioRet'.notified
       /\ Len(pendingParamWrites') > Len(pendingParamWrites)
       /\ Len(sourceNodes) >= 2
       /\ audioRet'.set[1] \in enabledEffects)
      => \A e \in Range(sourceNodes) :
           <<e, audioRet'.set[1]>> \in DOMAIN nodeParams
             => nodeParams'[<<e, audioRet'.set[1]>>]
                  = UpdateParameter(audioRet'.set[1], nodeParams[<<e, audioRet'.set[1]>>],
                                    audioRet'.set[2], audioRet'.set[3]) ]_vars

\* C35: whenever the engine is not connected and no connect call is in flight,
\* the in-memory mapping table is empty and isLinked is false; also after a
\* connectToDevice that failed because the device was not found.
C35_DisconnectedMeansEmptyTable ==
  (~isConnected /\ pendingConnects = << >>)
    => (midiMappings = EmptyMap /\ ~isLinked)

\* C36: while the engine reports isConnected = false, no hardware MIDI message
\* fires the mapping-triggered or the activity callback: after a disconnect
\* or a failed connectToDevice no listener is left on an input.
C36_NoCallbackWhileDisconnected ==
  [][ (~isConnected /\ midiRet'.op = "handleMidiMessage")
      => \A i \in DOMAIN midiEvents' :
           midiEvents'[i].ev \notin {"onMidiMappingTriggered", "onMidiActivity"} ]_vars

\* The mappings that the storage of a loading page may hold for a device.
StoredAtLoad(device) ==
  UNION { Range(stored.devices[device]) :
            stored \in { c \in StoredMidiChoices : device \in DOMAIN c.devices } }

\* C37: whenever the engine is connected to a device and no connect call is in
\* flight, every mapping of the table was restored from that device's stored
\* configuration or created while connected to it; no mapping of another
\* device remains, for any interleaving of connects and disconnects.  Checked
\* where no mapping is created, so that every mapping of the table has been
\* restored from the configuration some device had when the page loaded.
C37_TableBelongsToConnectedDevice ==
  (isConnected /\ pendingConnects = << >>)
    => \A pos \in Positions(midiMappings) :
         StoredMapping(midiMappings[pos[1]][pos[2]]) \in StoredAtLoad(connectedDeviceId)

\* C38: a last-activity snapshot that is not null implies that learning is on:
\* the snapshot is set only while learning and is cleared by setLearning(false)
\* and by disconnect, so requestLink has an activity to link only while
\* learning is on.
C38_ActivityOnlyWhileLearning ==
  lastActivity # NoActivity => isLearning

\* C38 witness: learning is on again after a mapping was created, and a new
\* activity has been recorded.
C38_Witness ==
  /\ lastActivity # NoActivity
  /\ isLearning
  /\ Positions(midiMappings) # {}
  /\ midiRet.op = "handleMidiMessage"

\* C39: every mapping of the table has type effect-toggle or effect-parameter,
\* a non-empty effect name, and a parameter name exactly when its type is
\* effect-parameter; a requestLink with a target id of another form creates
\* no mapping.
C39_MappingsWellTyped ==
  \A pos \in Positions(midiMappings) :
    LET m == midiMappings[pos[1]][pos[2]]
    IN  /\ m.type \in {EffectToggle, EffectParameter}
        /\ m.effect # ""
        /\ (m.parameter # << >>) <=> (m.type = EffectParameter)

\* C40: isConnected implies hasPermission in every reachable state: the engine
\* is never connected while it reports that MIDI permission is not granted,
\* also after a later requestPermission was denied or failed.
C40_ConnectedImpliesPermission ==
  isConnected => hasPermission

====
